---------------------------- MODULE Spec2Model ----------------------------
(***************************************************************************)
(* A model of the completion subsystem of mysql-cli-rust:                  *)
(*   - SmartSuggestionEngine (src/src/completion/engine.rs)                *)
(*   - DatabaseMetadata      (src/src/completion/metadata.rs)              *)
(*                                                                         *)
(* Rust strings are modelled as sequences of one-character strings, so     *)
(* that to_uppercase, trim, split_whitespace, starts_with, ends_with and   *)
(* contains are computed character by character as the code computes them. *)
(***************************************************************************)
EXTENDS Integers, Sequences, FiniteSets, TLC

VARIABLES
    pc,          \* position of the operation being modelled
    line,        \* the input line handed to the engine
    context,     \* the InputContext returned by analyze_context
    word,        \* the partial word being completed
    base_score,  \* the base score handed to calculate_relevance
    relevance,   \* candidate -> the score calculate_relevance gave it
    databases,   \* DatabaseMetadata.databases
    tables,      \* DatabaseMetadata.tables: database key -> table names
    columns,     \* DatabaseMetadata.columns: "db.table" key -> column names
    last_update, \* DatabaseMetadata.last_update, an instant in clock ticks
    has_loaded,  \* DatabaseMetadata.has_loaded
    now,         \* the monotonic clock (std::time::Instant), in ticks
    server,      \* the schema the MySQL server would enumerate
    queries,     \* number of queries issued on the connection so far
    calls,       \* number of calls made on the metadata so far
    op,          \* the last operation called on the metadata
    ret,         \* what that operation returned
    issued,      \* number of queries that operation issued
    current_database, \* SmartSuggestionEngine.current_database: <<>> or <<name>>
    metadata_lock,    \* who holds the Mutex around the metadata
    suggestions,      \* the Vec<Suggestion> get_suggestions is building
    todo,             \* the sources get_suggestions has yet to consult
    lookups,          \* the metadata lookups of this call and what each returned
    table_names,      \* what extract_table_names_from_query returned
    pos,              \* the cursor position handed to MySQLCompleter::complete, in bytes
    start,            \* what get_word_start returned
    cli_current_database, \* Cli.current_database, shown in the prompt: <<>> or <<name>>
    commands,         \* number of lines Cli::run has handled so far
    refresher         \* position of the thread inside update_from_connection

ctx_vars == <<line, context>>
rel_vars == <<word, base_score, relevance>>
md_vars == <<databases, tables, columns, last_update, has_loaded>>
conn_vars == <<now, server, queries, calls, op, ret, issued>>
sug_vars == <<current_database, metadata_lock, suggestions, todo, lookups, table_names>>

cli_vars == <<pos, start, cli_current_database, commands, refresher>>

vars == <<pc, ctx_vars, rel_vars, md_vars, conn_vars, sug_vars, cli_vars>>

(***************************************************************************)
(* Strings                                                                 *)
(***************************************************************************)
LowerAlphabet ==
    <<"a","b","c","d","e","f","g","h","i","j","k","l","m",
      "n","o","p","q","r","s","t","u","v","w","x","y","z">>
UpperAlphabet ==
    <<"A","B","C","D","E","F","G","H","I","J","K","L","M",
      "N","O","P","Q","R","S","T","U","V","W","X","Y","Z">>
Digits == {"0","1","2","3","4","5","6","7","8","9"}

UpperMap ==
    [c \in {LowerAlphabet[i] : i \in 1..26} |->
        UpperAlphabet[CHOOSE i \in 1..26 : LowerAlphabet[i] = c]]
LowerMap ==
    [c \in {UpperAlphabet[i] : i \in 1..26} |->
        LowerAlphabet[CHOOSE i \in 1..26 : UpperAlphabet[i] = c]]

char_to_uppercase(c) == IF c \in DOMAIN UpperMap THEN UpperMap[c] ELSE c
char_to_lowercase(c) == IF c \in DOMAIN LowerMap THEN LowerMap[c] ELSE c

to_uppercase(s) == [i \in 1..Len(s) |-> char_to_uppercase(s[i])]
to_lowercase(s) == [i \in 1..Len(s) |-> char_to_lowercase(s[i])]

\* the full-width space of CJK text, one char of three UTF-8 bytes, and a
\* letter of two bytes
IDEOGRAPHIC_SPACE == "U+3000"
E_ACUTE == "U+00E9"

is_whitespace(c) == c \in {" ", "\t", "\n", IDEOGRAPHIC_SPACE}

\* char::len_utf8
len_utf8(c) == IF c = IDEOGRAPHIC_SPACE THEN 3 ELSE IF c = E_ACUTE THEN 2 ELSE 1

RECURSIVE trim_start(_)
trim_start(s) ==
    IF s # <<>> /\ is_whitespace(Head(s)) THEN trim_start(Tail(s)) ELSE s

RECURSIVE trim_end(_)
trim_end(s) ==
    IF s # <<>> /\ is_whitespace(s[Len(s)])
    THEN trim_end(SubSeq(s, 1, Len(s) - 1))
    ELSE s

trim(s) == trim_end(trim_start(s))

RECURSIVE SplitFrom(_, _, _)
SplitFrom(s, i, cur) ==
    IF i > Len(s) THEN (IF cur = <<>> THEN <<>> ELSE <<cur>>)
    ELSE IF is_whitespace(s[i])
         THEN (IF cur = <<>> THEN SplitFrom(s, i + 1, <<>>)
               ELSE <<cur>> \o SplitFrom(s, i + 1, <<>>))
         ELSE SplitFrom(s, i + 1, Append(cur, s[i]))

split_whitespace(s) == SplitFrom(s, 1, <<>>)

starts_with(s, p) == Len(p) <= Len(s) /\ SubSeq(s, 1, Len(p)) = p
ends_with(s, p) ==
    Len(p) <= Len(s) /\ SubSeq(s, Len(s) - Len(p) + 1, Len(s)) = p
contains(s, p) ==
    \E i \in 0..(Len(s) - Len(p)) : SubSeq(s, i + 1, i + Len(p)) = p

(***************************************************************************)
(* Literals of engine.rs                                                   *)
(***************************************************************************)
\* the string literals of engine.rs, by their text
kw ==
    "SELECT" :> <<"S","E","L","E","C","T">>
    @@ "FROM" :> <<"F","R","O","M">>
    @@ "WHERE" :> <<"W","H","E","R","E">>
    @@ "JOIN" :> <<"J","O","I","N">>
    @@ "ON" :> <<"O","N">>
    @@ "ORDER" :> <<"O","R","D","E","R">>
    @@ "BY" :> <<"B","Y">>
    @@ "GROUP" :> <<"G","R","O","U","P">>
    @@ "HAVING" :> <<"H","A","V","I","N","G">>
    @@ "USE" :> <<"U","S","E">>
    @@ "INSERT" :> <<"I","N","S","E","R","T">>
    @@ "INTO" :> <<"I","N","T","O">>
    @@ "UPDATE" :> <<"U","P","D","A","T","E">>
    @@ "ORDER BY" :> <<"O","R","D","E","R"," ","B","Y">>
    @@ "GROUP BY" :> <<"G","R","O","U","P"," ","B","Y">>
    @@ "INSERT INTO" :> <<"I","N","S","E","R","T"," ","I","N","T","O">>
    @@ "WHERE " :> <<"W","H","E","R","E"," ">>
    @@ "FROM " :> <<"F","R","O","M"," ">>
    @@ "JOIN " :> <<"J","O","I","N"," ">>
    @@ " ON " :> <<" ","O","N"," ">>
    @@ "ORDER BY " :> <<"O","R","D","E","R"," ","B","Y"," ">>
    @@ "GROUP BY " :> <<"G","R","O","U","P"," ","B","Y"," ">>
    @@ "HAVING " :> <<"H","A","V","I","N","G"," ">>
    @@ "*" :> <<"*">>
    @@ "SET" :> <<"S","E","T">>
    @@ "DESCRIBE" :> <<"D","E","S","C","R","I","B","E">>

(***************************************************************************)
(* sqlparser::Parser::parse_sql with MySqlDialect, as far as it decides    *)
(* the lines of this model: the statement, query, select, table-factor,    *)
(* join and expression productions over words, numbers, `*`, `=` and `;`.  *)
(* A token sequence is the upper-cased line split at whitespace (every     *)
(* word of the model's vocabulary is a single lexeme, and the parser       *)
(* matches keywords case-insensitively).  Each production returns the      *)
(* position after what it consumed, or 0 for a ParserError.                *)
(***************************************************************************)
Tokenize(sql) == split_whitespace(to_uppercase(sql))

IsWordToken(w) ==
    /\ w # <<>>
    /\ w[1] \notin Digits
    /\ \A i \in 1..Len(w) : w[i] \in DOMAIN LowerMap \/ w[i] = "_" \/ w[i] \in Digits
IsNumberToken(w) == w # <<>> /\ \A i \in 1..Len(w) : w[i] \in Digits

\* keywords::RESERVED_FOR_COLUMN_ALIAS, the entries among the model's words
RESERVED_FOR_COLUMN_ALIAS == {kw["SELECT"], kw["WHERE"], kw["GROUP"], kw["HAVING"], kw["ORDER"], kw["FROM"], kw["INTO"]}
\* keywords::RESERVED_FOR_TABLE_ALIAS, the entries among the model's words
RESERVED_FOR_TABLE_ALIAS ==
    {kw["SELECT"], kw["WHERE"], kw["GROUP"], kw["HAVING"], kw["ORDER"], kw["ON"], kw["JOIN"],
     kw["SET"]}

peek_keyword(ts, p, k) == p # 0 /\ p <= Len(ts) /\ ts[p] = k

\* parse_prefix: any word not given a production of its own is an identifier
parse_prefix(ts, p) ==
    IF p # 0 /\ p <= Len(ts) /\ (IsWordToken(ts[p]) \/ IsNumberToken(ts[p]))
    THEN p + 1 ELSE 0

\* get_next_precedence > 0: the binary operators among the model's tokens
IsInfixToken(ts, p) == p <= Len(ts) /\ ts[p] \in {<<"=">>, <<"*">>}

\* parse_subexpr's loop after an operand at p: (operator operand)*
RECURSIVE parse_infix(_, _)
parse_infix(ts, p) ==
    IF p = 0 THEN 0
    ELSE IF IsInfixToken(ts, p) THEN parse_infix(ts, parse_prefix(ts, p + 1))
    ELSE p

parse_expr(ts, p) == parse_infix(ts, parse_prefix(ts, p))

\* parse_optional_alias without AS: a word that is not reserved is an alias
parse_optional_alias(ts, p, reserved) ==
    IF p = 0 THEN 0
    ELSE IF p <= Len(ts) /\ IsWordToken(ts[p]) /\ ts[p] \notin reserved
    THEN p + 1 ELSE p

\* parse_select_item: the wildcard, or an expression and its optional alias
parse_select_item(ts, p) ==
    IF p <= Len(ts) /\ ts[p] = <<"*">> THEN p + 1
    ELSE parse_optional_alias(ts, parse_expr(ts, p), RESERVED_FOR_COLUMN_ALIAS)

\* parse_table_factor: parse_object_name accepts any word, then an alias
parse_table_factor(ts, p) ==
    IF p <= Len(ts) /\ IsWordToken(ts[p])
    THEN parse_optional_alias(ts, p + 1, RESERVED_FOR_TABLE_ALIAS)
    ELSE 0

\* parse_join_constraint after the joined table factor: [ON expr]
parse_join_constraint(ts, p) ==
    IF peek_keyword(ts, p, kw["ON"]) THEN parse_expr(ts, p + 1) ELSE p

\* the join loop of parse_table_and_joins: (JOIN table_factor [ON expr])*
RECURSIVE parse_joins(_, _)
parse_joins(ts, p) ==
    IF peek_keyword(ts, p, kw["JOIN"])
    THEN parse_joins(ts, parse_join_constraint(ts, parse_table_factor(ts, p + 1)))
    ELSE p

parse_table_and_joins(ts, p) == parse_joins(ts, parse_table_factor(ts, p))

\* an optional clause KEYWORD expr: the position after it, p if absent
parse_optional_clause(ts, p, k) ==
    IF peek_keyword(ts, p, k) THEN parse_expr(ts, p + 1) ELSE p

\* an optional clause KEYWORD BY expr (parse_keywords backtracks on a miss)
parse_optional_by_clause(ts, p, k) ==
    IF peek_keyword(ts, p, k) /\ peek_keyword(ts, p + 1, kw["BY"])
    THEN parse_expr(ts, p + 2) ELSE p

\* parse_select from its FROM clause on; a is the position after the
\* projection: [FROM table_with_joins] [WHERE e] [GROUP BY e] [HAVING e]
parse_from_clause(ts, a) ==
    IF peek_keyword(ts, a, kw["FROM"]) THEN parse_table_and_joins(ts, a + 1) ELSE a

parse_select_tail(ts, hasFrom, b) ==
    [pos |-> parse_optional_clause(ts,
                parse_optional_by_clause(ts,
                    parse_optional_clause(ts, b, kw["WHERE"]), kw["GROUP"]),
                kw["HAVING"]),
     from |-> hasFrom,
     selection |-> peek_keyword(ts, b, kw["WHERE"])]

parse_select_from(ts, a) ==
    parse_select_tail(ts, peek_keyword(ts, a, kw["FROM"]), parse_from_clause(ts, a))

\* parse_select, at the token after SELECT
parse_select(ts, p) == parse_select_from(ts, parse_select_item(ts, p))

\* parse_query: the select body s, then [ORDER BY e]
parse_order_by(ts, s) ==
    [pos |-> parse_optional_by_clause(ts, s.pos, kw["ORDER"]),
     stmt |-> [kind |-> "Query", from |-> s.from, selection |-> s.selection]]

parse_query(ts, p) == parse_order_by(ts, parse_select(ts, p))

NoStatement == [kind |-> "None", from |-> FALSE, selection |-> FALSE]

\* parse_use: USE identifier
parse_use(ts, p) ==
    [pos |-> IF p <= Len(ts) /\ IsWordToken(ts[p]) THEN p + 1 ELSE 0,
     stmt |-> [kind |-> "Use", from |-> FALSE, selection |-> FALSE]]

\* parse_insert, at the token after INSERT: [INTO] table query
parse_insert_source(ts, q) ==
    IF peek_keyword(ts, q, kw["SELECT"]) THEN parse_query(ts, q + 1).pos ELSE 0

parse_insert_table(ts, q) ==
    IF q <= Len(ts) /\ IsWordToken(ts[q]) THEN parse_insert_source(ts, q + 1) ELSE 0

parse_insert(ts, p) ==
    [pos |-> parse_insert_table(ts, IF peek_keyword(ts, p, kw["INTO"]) THEN p + 1 ELSE p),
     stmt |-> [kind |-> "Insert", from |-> FALSE, selection |-> FALSE]]

\* parse_update, at the token after UPDATE:
\* table_with_joins SET column = expr [WHERE expr]
parse_assignment(ts, q) ==
    IF /\ q # 0 /\ q + 1 <= Len(ts) /\ IsWordToken(ts[q]) /\ ts[q + 1] = <<"=">>
    THEN parse_optional_clause(ts, parse_expr(ts, q + 2), kw["WHERE"])
    ELSE 0

parse_update_set(ts, q) ==
    IF peek_keyword(ts, q, kw["SET"]) THEN parse_assignment(ts, q + 1) ELSE 0

parse_update(ts, p) ==
    [pos |-> parse_update_set(ts, parse_table_and_joins(ts, p)),
     stmt |-> [kind |-> "Update", from |-> FALSE, selection |-> FALSE]]

\* parse_explain, at the token after DESCRIBE: the statement that follows if
\* one parses there (`inner`), else a table name
parse_explain(ts, p, inner) ==
    [pos |-> IF inner.pos # 0 THEN inner.pos
             ELSE IF p <= Len(ts) /\ IsWordToken(ts[p]) THEN p + 1 ELSE 0,
     stmt |-> [kind |-> "Explain", from |-> FALSE, selection |-> FALSE]]

\* parse_statement: the statements that the words of the model's vocabulary
\* start
RECURSIVE parse_statement(_, _)
parse_statement(ts, p) ==
    IF peek_keyword(ts, p, kw["SELECT"]) THEN parse_query(ts, p + 1)
    ELSE IF peek_keyword(ts, p, kw["USE"]) THEN parse_use(ts, p + 1)
    ELSE IF peek_keyword(ts, p, kw["INSERT"]) THEN parse_insert(ts, p + 1)
    ELSE IF peek_keyword(ts, p, kw["UPDATE"]) THEN parse_update(ts, p + 1)
    ELSE IF peek_keyword(ts, p, kw["DESCRIBE"])
    THEN parse_explain(ts, p + 1, parse_statement(ts, p + 1))
    ELSE [pos |-> 0, stmt |-> NoStatement]

RECURSIVE skip_semicolons(_, _)
skip_semicolons(ts, p) ==
    IF p <= Len(ts) /\ ts[p] = <<";">> THEN skip_semicolons(ts, p + 1) ELSE p

\* parse_sql's loop: p is the position after the previous statement, q the
\* position after the semicolons that follow it, `first` is
\* statements.first() so far
RECURSIVE parse_statements(_, _, _, _)
parse_next_statement(ts, st, first) ==
    IF st.pos = 0 THEN [ok |-> FALSE, first |-> first]
    ELSE parse_statements(ts, st.pos, skip_semicolons(ts, st.pos),
                          IF first = NoStatement THEN st.stmt ELSE first)

parse_statements(ts, p, q, first) ==
    IF q > Len(ts) THEN [ok |-> TRUE, first |-> first]
    ELSE IF first # NoStatement /\ q = p
         THEN [ok |-> FALSE, first |-> first]   \* expected end of statement
         ELSE parse_next_statement(ts, parse_statement(ts, q), first)

parse_tokens(ts) == parse_statements(ts, 1, skip_semicolons(ts, 1), NoStatement)

parse_sql(sql) == parse_tokens(Tokenize(sql))

(***************************************************************************)
(* SmartSuggestionEngine: context analysis                                 *)
(***************************************************************************)
analyze_query_context(stmt) ==
    IF stmt.from
    THEN (IF stmt.selection THEN "WhereClause" ELSE "FromClause")
    ELSE "SelectClause"

determine_context_from_statement(stmt) ==
    CASE stmt.kind = "Query" -> analyze_query_context(stmt)
      [] stmt.kind = "Insert" -> "InsertIntoClause"
      [] stmt.kind = "Update" -> "UpdateClause"
      [] stmt.kind = "Use" -> "UseCommand"
      [] OTHER -> "General"

\* Result<InputContext, _>: "Err" stands for the Err variant.
\* The ends_with rules of analyze_incomplete_sql, in the order of the code.
\* (mutant: a trailing JOIN taken for the start of a join condition)
suffix_rules_join_as_on(sql_upper) ==
    CASE ends_with(sql_upper, kw["WHERE"]) -> "WhereClause"
      [] ends_with(sql_upper, kw["FROM"]) -> "FromClause"
      [] ends_with(sql_upper, kw["JOIN"]) -> "JoinOnClause"
      [] ends_with(sql_upper, kw["ON"]) -> "JoinOnClause"
      [] ends_with(sql_upper, kw["ORDER BY"]) -> "OrderByClause"
      [] ends_with(sql_upper, kw["GROUP BY"]) -> "GroupByClause"
      [] ends_with(sql_upper, kw["HAVING"]) -> "HavingClause"
      [] OTHER -> "Err"

\* (mutant: no rule for a trailing HAVING)
suffix_rules_without_having(sql_upper) ==
    CASE ends_with(sql_upper, kw["WHERE"]) -> "WhereClause"
      [] ends_with(sql_upper, kw["FROM"]) -> "FromClause"
      [] ends_with(sql_upper, kw["JOIN"]) -> "FromClause"
      [] ends_with(sql_upper, kw["ON"]) -> "JoinOnClause"
      [] ends_with(sql_upper, kw["ORDER BY"]) -> "OrderByClause"
      [] ends_with(sql_upper, kw["GROUP BY"]) -> "GroupByClause"
      [] OTHER -> "Err"

suffix_rules(sql_upper) ==
    CASE ends_with(sql_upper, kw["WHERE"]) -> "WhereClause"
      [] ends_with(sql_upper, kw["FROM"]) -> "FromClause"
      [] ends_with(sql_upper, kw["JOIN"]) -> "FromClause"
      [] ends_with(sql_upper, kw["ON"]) -> "JoinOnClause"
      [] ends_with(sql_upper, kw["ORDER BY"]) -> "OrderByClause"
      [] ends_with(sql_upper, kw["GROUP BY"]) -> "GroupByClause"
      [] ends_with(sql_upper, kw["HAVING"]) -> "HavingClause"
      [] OTHER -> "Err"

\* The contains rules of analyze_incomplete_sql, in the order of the code.
\* (mutant: the FROM rule tried before the WHERE rule)
substring_rules_from_first(sql_upper) ==
    CASE contains(sql_upper, kw["FROM "]) -> "FromClause"
      [] contains(sql_upper, kw["WHERE "]) -> "WhereClause"
      [] contains(sql_upper, kw["JOIN "]) -> "FromClause"
      [] contains(sql_upper, kw[" ON "]) -> "JoinOnClause"
      [] contains(sql_upper, kw["ORDER BY "]) -> "OrderByClause"
      [] contains(sql_upper, kw["GROUP BY "]) -> "GroupByClause"
      [] contains(sql_upper, kw["HAVING "]) -> "HavingClause"
      [] OTHER -> "Err"

substring_rules(sql_upper) ==
    CASE contains(sql_upper, kw["WHERE "]) -> "WhereClause"
      [] contains(sql_upper, kw["FROM "]) -> "FromClause"
      [] contains(sql_upper, kw["JOIN "]) -> "FromClause"
      [] contains(sql_upper, kw[" ON "]) -> "JoinOnClause"
      [] contains(sql_upper, kw["ORDER BY "]) -> "OrderByClause"
      [] contains(sql_upper, kw["GROUP BY "]) -> "GroupByClause"
      [] contains(sql_upper, kw["HAVING "]) -> "HavingClause"
      [] OTHER -> "Err"

\* The starts_with rules of analyze_incomplete_sql.
statement_start_rules(sql_upper) ==
    CASE starts_with(sql_upper, kw["SELECT"]) -> "SelectClause"
      [] starts_with(sql_upper, kw["INSERT INTO"]) -> "InsertIntoClause"
      [] starts_with(sql_upper, kw["UPDATE"]) -> "UpdateClause"
      [] OTHER -> "Err"

\* (mutant: the substring rules consulted before the suffix rules)
first_match_substring_first(a, b, c) ==
    IF b # "Err" THEN b ELSE IF a # "Err" THEN a ELSE c

\* the three tiers in order: the first rule that matches decides
first_match(a, b, c) == IF a # "Err" THEN a ELSE IF b # "Err" THEN b ELSE c

incomplete_sql_rules(sql_upper) ==
    first_match(suffix_rules(sql_upper), substring_rules(sql_upper),
                statement_start_rules(sql_upper))

analyze_incomplete_sql(sql) == incomplete_sql_rules(to_uppercase(sql))

\* the match on Parser::parse_sql's result r
context_of_parse_result(r, sql) ==
    IF r.ok
    THEN (IF r.first # NoStatement
          THEN determine_context_from_statement(r.first)
          ELSE "Err")
    ELSE analyze_incomplete_sql(sql)

analyze_sql_context(sql) == context_of_parse_result(parse_sql(sql), sql)

\* the `for &word in &words` scan, from word i on
RECURSIVE fallback_scan(_, _)
fallback_scan(words, i) ==
    IF i > Len(words) THEN "None"
    ELSE CASE to_uppercase(words[i]) = kw["WHERE"] -> "WhereClause"
           [] to_uppercase(words[i]) \in {kw["FROM"], kw["JOIN"]} -> "FromClause"
           [] /\ to_uppercase(words[i]) = kw["ORDER"]
              /\ Len(words) > 1 /\ to_uppercase(words[2]) = kw["BY"]
                -> "OrderByClause"
           [] /\ to_uppercase(words[i]) = kw["GROUP"]
              /\ Len(words) > 1 /\ to_uppercase(words[2]) = kw["BY"]
                -> "GroupByClause"
           [] to_uppercase(words[i]) = kw["HAVING"] -> "HavingClause"
           [] OTHER -> fallback_scan(words, i + 1)

\* the match on the first word that ends analyze_context_fallback
statement_of_first_word(first) ==
    CASE first = kw["SELECT"] -> "SelectClause"
      [] first = kw["INSERT"] -> "InsertIntoClause"
      [] first = kw["UPDATE"] -> "UpdateClause"
      [] OTHER -> "General"

fallback_of_words(words, hit) ==
    IF words = <<>> THEN "General"
    ELSE IF to_uppercase(words[1]) = kw["USE"] THEN "UseCommand"
    ELSE IF hit # "None" THEN hit
    ELSE statement_of_first_word(to_uppercase(words[1]))

analyze_context_fallback(ln) ==
    fallback_of_words(split_whitespace(ln),
                      fallback_scan(split_whitespace(ln), 1))

\* `if let Ok(context) = .. { return context; }`, else the fallback
parsed_or_fallback(c, line_trimmed) ==
    IF c # "Err" THEN c ELSE analyze_context_fallback(line_trimmed)

\* (mutant: analyze_context without the quick check of the first word)
analyze_trimmed_no_use_check(line_trimmed, words) ==
    IF line_trimmed = <<>> THEN "General"
    ELSE parsed_or_fallback(analyze_sql_context(line_trimmed), line_trimmed)

\* analyze_context after `let line_trimmed = line.trim()`
analyze_trimmed(line_trimmed, words) ==
    IF line_trimmed = <<>> THEN "General"
    ELSE IF to_uppercase(words[1]) = kw["USE"] THEN "UseCommand"
    ELSE parsed_or_fallback(analyze_sql_context(line_trimmed), line_trimmed)

analyze_context(ln) == analyze_trimmed(trim(ln), split_whitespace(trim(ln)))

(***************************************************************************)
(* SmartSuggestionEngine::calculate_relevance                              *)
(***************************************************************************)
U8 == 256

\* u8 `+` as the release build computes it (no base the engine passes
\* comes near the overflow)
u8_add(a, b) == (a + b) % U8

saturating_sub(a, b) == IF a > b THEN a - b ELSE 0

min(a, b) == IF a < b THEN a ELSE b

\* (mutant: a prefix match scored like the best substring match)
calculate_relevance_weak_prefix(item, w, base) ==
    IF w = <<>> THEN base
    ELSE IF to_lowercase(item) = to_lowercase(w) THEN 100
    ELSE IF starts_with(to_lowercase(item), to_lowercase(w)) THEN 85
    ELSE IF contains(to_lowercase(item), to_lowercase(w))
         THEN min(u8_add(base, 5), 85)
    ELSE saturating_sub(base, 10)

calculate_relevance(item, w, base) ==
    IF w = <<>> THEN base
    ELSE IF to_lowercase(item) = to_lowercase(w) THEN 100
    ELSE IF starts_with(to_lowercase(item), to_lowercase(w)) THEN 95
    ELSE IF contains(to_lowercase(item), to_lowercase(w))
         THEN min(u8_add(base, 5), 85)
    ELSE saturating_sub(base, 10)

(***************************************************************************)
(* DatabaseMetadata (metadata.rs)                                          *)
(***************************************************************************)
\* the database, table and column names of the caches, by their text
nm ==
    "OR" :> <<"O","R">>
    @@ "orders" :> <<"o","r","d","e","r","s">>
    @@ "users" :> <<"u","s","e","r","s">>
    @@ "information_schema" :> <<"i","n","f","o","r","m","a","t","i","o","n","_","s","c","h","e","m","a">>
    @@ "test_db" :> <<"t","e","s","t","_","d","b">>
    @@ "sales" :> <<"s","a","l","e","s">>
    @@ "mysql" :> <<"m","y","s","q","l">>
    @@ "performance_schema" :> <<"p","e","r","f","o","r","m","a","n","c","e","_","s","c","h","e","m","a">>
    @@ "sys" :> <<"s","y","s">>
    @@ "items" :> <<"i","t","e","m","s">>
    @@ "id" :> <<"i","d">>
    @@ "name" :> <<"n","a","m","e">>
    @@ "email" :> <<"e","m","a","i","l">>
    @@ "order_id" :> <<"o","r","d","e","r","_","i","d">>
    @@ "user_id" :> <<"u","s","e","r","_","i","d">>
    @@ "amount" :> <<"a","m","o","u","n","t">>
    @@ "db01" :> <<"d","b","0","1">>
    @@ "t01" :> <<"t","0","1">>

\* the cache expires after this many seconds
REFRESH_SECS == 300

\* resolution of the clock: Instant is finer than the whole seconds that
\* Duration::as_secs keeps
TicksPerSecond == 2

as_secs(ticks) == ticks \div TicksPerSecond

\* the DatabaseMetadata value held in the variables
Metadata ==
    [databases |-> databases, tables |-> tables, columns |-> columns,
     last_update |-> last_update, has_loaded |-> has_loaded]

\* DatabaseMetadata::new() at instant t
new_metadata(t) ==
    [databases |-> <<>>, tables |-> <<>>, columns |-> <<>>,
     last_update |-> t, has_loaded |-> FALSE]

needs_refresh(md, t) ==
    ~md.has_loaded \/ as_secs(t - md.last_update) > REFRESH_SECS

is_system_database(db) ==
    db \in { nm["information_schema"], nm["mysql"], nm["performance_schema"], nm["sys"] }

\* HashMap::insert: the new value replaces one stored under the same key
insert(m, k, v) == (k :> v) @@ m

\* format!("{}.{}", db, table)
format_key(db, table) == db \o <<".">> \o table

\* the `for table in &tables` loop from table i on; acc carries self.tables,
\* self.columns and the number of queries issued
RECURSIVE load_columns(_, _, _, _, _, _)
load_columns(db, tabs, i, srv, fail, acc) ==
    IF i > Len(tabs) THEN acc
    ELSE load_columns(db, tabs, i + 1, srv, fail,
            IF <<db, tabs[i]>> \in fail.show_columns
            THEN [acc EXCEPT !.issued = @ + 1]
            ELSE [acc EXCEPT !.issued = @ + 1,
                             !.columns = insert(@, to_lowercase(format_key(db, tabs[i])),
                                                srv.columns[<<db, tabs[i]>>])])

\* (mutant: load_tables storing an empty table list for a database whose
\* SHOW TABLES failed)
RECURSIVE load_tables_empty_on_failure(_, _, _, _, _)
load_tables_empty_on_failure(dbs, i, srv, fail, acc) ==
    IF i > Len(dbs) THEN acc
    ELSE IF is_system_database(dbs[i])
    THEN load_tables_empty_on_failure(dbs, i + 1, srv, fail, acc)
    ELSE IF dbs[i] \in fail.show_tables
    THEN load_tables_empty_on_failure(dbs, i + 1, srv, fail,
            [acc EXCEPT !.issued = @ + 1,
                        !.tables = insert(@, to_lowercase(dbs[i]), <<>>)])
    ELSE load_tables_empty_on_failure(dbs, i + 1, srv, fail,
            load_columns(dbs[i], srv.tables[dbs[i]], 1, srv, fail,
                [acc EXCEPT !.issued = @ + 1,
                            !.tables = insert(@, to_lowercase(dbs[i]), srv.tables[dbs[i]])]))

\* the `for db in &databases` loop from database i on
RECURSIVE load_tables(_, _, _, _, _)
load_tables(dbs, i, srv, fail, acc) ==
    IF i > Len(dbs) THEN acc
    ELSE IF is_system_database(dbs[i]) THEN load_tables(dbs, i + 1, srv, fail, acc)
    ELSE IF dbs[i] \in fail.show_tables
    THEN load_tables(dbs, i + 1, srv, fail, [acc EXCEPT !.issued = @ + 1])
    ELSE load_tables(dbs, i + 1, srv, fail,
            load_columns(dbs[i], srv.tables[dbs[i]], 1, srv, fail,
                [acc EXCEPT !.issued = @ + 1,
                            !.tables = insert(@, to_lowercase(dbs[i]), srv.tables[dbs[i]])]))

\* the end of update_from_connection: the loaded maps are in acc
refreshed(dbs, t, acc) ==
    [md |-> [databases |-> dbs, tables |-> acc.tables, columns |-> acc.columns,
             last_update |-> t, has_loaded |-> TRUE],
     issued |-> acc.issued, result |-> "Ok"]

\* update_from_connection after its needs_refresh check
enumerate_schema(md, t, srv, fail) ==
    IF fail.show_databases
    THEN [md |-> md, issued |-> 1, result |-> "Err"]
    ELSE refreshed(srv.databases, t,
            load_tables(srv.databases, 1, srv, fail,
                        [tables |-> <<>>, columns |-> <<>>, issued |-> 1]))

\* (mutant: update_from_connection without the needs_refresh check)
update_from_connection_always(md, t, srv, fail) == enumerate_schema(md, t, srv, fail)

\* update_from_connection at instant t, against a server whose schema is
\* srv and whose queries fail as `fail` says
update_from_connection(md, t, srv, fail) ==
    IF ~needs_refresh(md, t)
    THEN [md |-> md, issued |-> 0, result |-> "Ok"]
    ELSE enumerate_schema(md, t, srv, fail)

(***************************************************************************)
(* SmartSuggestionEngine: the suggestions of each source (engine.rs) and   *)
(* Suggestion (suggestion.rs).  A HashMap is iterated in an order the      *)
(* program does not control: `order` is that order, a sequence of keys.    *)
(***************************************************************************)
\* Suggestion::new; `source` is what the description names (the database of
\* a table, the table key of a column)
Suggestion(text, category, rel, source) ==
    [text |-> text, category |-> category, relevance |-> min(rel, 100),
     source |-> source]

\* the character U+0060, which a TLA+ string cannot hold
BACKTICK == "U+0060"

\* format!() of a name between two U+0060
backtick(name) == <<BACKTICK>> \o name \o <<BACKTICK>>

Suggestion_database(name, rel) == Suggestion(backtick(name), "Database", rel, <<>>)
Suggestion_table(name, db, rel) == Suggestion(backtick(name), "Table", rel, db)
Suggestion_column(name, table, rel) == Suggestion(backtick(name), "Column", rel, table)
Suggestion_sql_keyword(keyword, rel) == Suggestion(keyword, "SqlKeyword", rel, <<>>)
Suggestion_function(name, rel) == Suggestion(name, "Function", rel, <<>>)
Suggestion_command(command, rel) == Suggestion(command, "Command", rel, <<>>)

\* the keyword list the engine is built with (create_test_engine)
sql_keywords ==
    <<kw["SELECT"], kw["FROM"], kw["WHERE"], kw["INSERT"], kw["UPDATE"], kw["ORDER"], kw["BY"],
      kw["GROUP"], kw["HAVING"]>>

functions ==
    << <<"C","O","U","N","T">>,
       <<"S","U","M">>,
       <<"A","V","G">>,
       <<"M","A","X">>,
       <<"M","I","N">>,
       <<"N","O","W">>,
       <<"C","O","N","C","A","T">>,
       <<"U","P","P","E","R">>,
       <<"L","O","W","E","R">>,
       <<"S","U","B","S","T","R","I","N","G">>,
       <<"L","E","N","G","T","H">>,
       <<"T","R","I","M">>,
       <<"D","A","T","E">>,
       <<"Y","E","A","R">>,
       <<"M","O","N","T","H">>,
       <<"D","A","Y">> >>

conditions ==
    << <<"A","N","D">>,
       <<"O","R">>,
       <<"N","O","T">>,
       <<"I","N">>,
       <<"L","I","K","E">>,
       <<"B","E","T","W","E","E","N">>,
       <<"I","S"," ","N","U","L","L">>,
       <<"I","S"," ","N","O","T"," ","N","U","L","L">>,
       <<"E","X","I","S","T","S">>,
       <<"R","E","G","E","X","P">> >>

get_common_command_suggestions ==
    << Suggestion_command(<<"S","E","L","E","C","T"," ","*"," ","F","R","O","M">>, 95),
       Suggestion_command(<<"S","H","O","W"," ","D","A","T","A","B","A","S","E","S">>, 90),
       Suggestion_command(<<"S","H","O","W"," ","T","A","B","L","E","S">>, 85),
       Suggestion_command(<<"U","S","E">>, 80),
       Suggestion_command(<<"D","E","S","C","R","I","B","E">>, 75),
       Suggestion_command(<<"I","N","S","E","R","T"," ","I","N","T","O">>, 70),
       Suggestion_command(<<"U","P","D","A","T","E">>, 65),
       Suggestion_command(<<"D","E","L","E","T","E"," ","F","R","O","M">>, 60) >>

no_databases_placeholder ==
    Suggestion_command(<<"-","-"," ","N","o"," ","d","a","t","a","b","a","s","e","s"," ","a","v","a","i","l","a","b","l","e"," ","-","-">>, 50)

no_tables_placeholder ==
    Suggestion_command(<<"-","-"," ","N","o"," ","t","a","b","l","e","s"," ","a","v","a","i","l","a","b","l","e"," ","-","-">>, 50)

\* (mutant: the two scores exchanged)
select_star_suggestions_swapped ==
    << Suggestion_command(<<"*">>, 90),
       Suggestion_command(<<"C","O","U","N","T","(","*",")">>, 95) >>

select_star_suggestions ==
    << Suggestion_command(<<"*">>, 95),
       Suggestion_command(<<"C","O","U","N","T","(","*",")">>, 90) >>

\* the elements of s, in order, that the loop body pushes a suggestion for
RECURSIVE collect(_, _, _)
collect(s, i, acc) ==
    IF i > Len(s) THEN acc
    ELSE collect(s, i + 1, IF s[i].keep THEN Append(acc, s[i].suggestion) ELSE acc)

\* (mutant: the databases scored from a base of 85, like the tables)
database_candidate_as_table(db, w) ==
    [keep |-> w = <<>> \/ starts_with(to_lowercase(db), to_lowercase(w)),
     suggestion |-> Suggestion_database(db, calculate_relevance(db, w, 85))]

\* the loop of get_database_suggestions
database_candidate(db, w) ==
    [keep |-> w = <<>> \/ starts_with(to_lowercase(db), to_lowercase(w)),
     suggestion |-> Suggestion_database(db, calculate_relevance(db, w, 90))]

get_database_suggestions(md, w) ==
    collect([i \in 1..Len(md.databases) |-> database_candidate(md.databases[i], w)],
            1, <<>>)

\* the loops over a fixed list: relevance > 50 || word.is_empty()
listed_candidate(suggestion, w) ==
    [keep |-> suggestion.relevance > 50 \/ w = <<>>, suggestion |-> suggestion]

get_function_suggestions(w) ==
    collect([i \in 1..Len(functions) |->
                listed_candidate(Suggestion_function(functions[i],
                                    calculate_relevance(functions[i], w, 75)), w)],
            1, <<>>)

get_condition_suggestions(w) ==
    collect([i \in 1..Len(conditions) |->
                listed_candidate(Suggestion_sql_keyword(conditions[i],
                                    calculate_relevance(conditions[i], w, 70)), w)],
            1, <<>>)

get_sql_keyword_suggestions(w) ==
    collect([i \in 1..Len(sql_keywords) |->
                listed_candidate(Suggestion_sql_keyword(sql_keywords[i],
                                    calculate_relevance(sql_keywords[i], w, 65)), w)],
            1, <<>>)

\* the concatenation of the sequences f[order[1]], f[order[2]], ...
RECURSIVE concat_in_order(_, _, _)
concat_in_order(f, order, i) ==
    IF i > Len(order) THEN <<>>
    ELSE f[order[i]] \o concat_in_order(f, order, i + 1)

\* the orders in which a HashMap with the keys of m can be iterated
IterationOrders(m) ==
    { o \in [1..Cardinality(DOMAIN m) -> DOMAIN m] :
         \A i \in DOMAIN o : \A j \in DOMAIN o : o[i] = o[j] => i = j }

\* DatabaseMetadata::get_all_tables / get_all_columns: (key, name) pairs
keyed(m) == [k \in DOMAIN m |-> [i \in 1..Len(m[k]) |-> <<k, m[k][i]>>]]

get_all_tables(md, order) == concat_in_order(keyed(md.tables), order, 1)

get_all_columns(md, order) == concat_in_order(keyed(md.columns), order, 1)

\* current_db.as_ref() == Some(db); current_db is <<>> for None and
\* <<name>> for Some(name)
is_current(current_db, db) == current_db = <<db>>

\* get_table_suggestions, word empty: the tables of the current database,
\* then the others
table_candidate(pair, keep) ==
    [keep |-> keep,
     suggestion |-> Suggestion_table(pair[2], pair[1],
                                     calculate_relevance(pair[2], <<>>, 85))]

all_tables_current_first(all, current_db) ==
    collect([i \in 1..Len(all) |->
                table_candidate(all[i], is_current(current_db, all[i][1]))], 1, <<>>)
    \o collect([i \in 1..Len(all) |->
                table_candidate(all[i], ~is_current(current_db, all[i][1]))], 1, <<>>)

\* get_table_suggestions, word typed: the tables that start with it
typed_table_candidate(pair, current_db, w) ==
    [keep |-> starts_with(to_lowercase(pair[2]), to_lowercase(w)),
     suggestion |-> Suggestion_table(pair[2], pair[1],
                        IF is_current(current_db, pair[1]) THEN 95
                        ELSE calculate_relevance(pair[2], w, 85))]

tables_starting_with(all, current_db, w) ==
    collect([i \in 1..Len(all) |-> typed_table_candidate(all[i], current_db, w)],
            1, <<>>)

\* get_table_suggestions once the metadata lock is taken
get_table_suggestions(md, current_db, w, order) ==
    IF w = <<>>
    THEN all_tables_current_first(get_all_tables(md, order), current_db)
    ELSE tables_starting_with(get_all_tables(md, order), current_db, w)

\* str::trim_matches(c)
RECURSIVE trim_start_matches(_, _)
trim_start_matches(s, c) ==
    IF s # <<>> /\ Head(s) = c THEN trim_start_matches(Tail(s), c) ELSE s

RECURSIVE trim_end_matches(_, _)
trim_end_matches(s, c) ==
    IF s # <<>> /\ s[Len(s)] = c
    THEN trim_end_matches(SubSeq(s, 1, Len(s) - 1), c) ELSE s

trim_matches(s, c) == trim_end_matches(trim_start_matches(s, c), c)

is_sql_keyword(w) ==
    \E i \in 1..Len(sql_keywords) : sql_keywords[i] = to_uppercase(w)

\* words[i + 1] without its quotes, commas and semicolons
table_name_at(words, i) ==
    trim_matches(trim_matches(trim_matches(words[i + 1], BACKTICK), ","), ";")

\* the loop of extract_table_names_from_query from word i on
RECURSIVE table_names_from(_, _, _)
table_names_from(words, i, acc) ==
    IF i > Len(words) THEN acc
    ELSE table_names_from(words, i + 1,
            IF /\ to_uppercase(words[i]) \in {kw["FROM"], kw["JOIN"]}
               /\ i + 1 <= Len(words)
               /\ ~is_sql_keyword(table_name_at(words, i))
            THEN Append(acc, table_name_at(words, i))
            ELSE acc)

extract_table_names_from_query(query) ==
    table_names_from(split_whitespace(query), 1, <<>>)

\* the columns cached under full_table_key that the typed word admits
column_candidate(column, full_table_key, w) ==
    [keep |-> w = <<>> \/ starts_with(to_lowercase(column), to_lowercase(w)),
     suggestion |-> Suggestion_column(column, full_table_key,
                                      calculate_relevance(column, w, 90))]

columns_of_key(md, full_table_key, w) ==
    IF full_table_key \in DOMAIN md.columns
    THEN collect([i \in 1..Len(md.columns[full_table_key]) |->
                    column_candidate(md.columns[full_table_key][i], full_table_key, w)],
                 1, <<>>)
    ELSE <<>>

\* the `for table_name in &table_names` loop from table i on
RECURSIVE columns_of_tables(_, _, _, _, _)
columns_of_tables(md, current_db, names, w, i) ==
    IF i > Len(names) THEN <<>>
    ELSE (IF current_db # <<>>
          THEN columns_of_key(md, to_lowercase(format_key(current_db[1], names[i])), w)
          ELSE <<>>)
         \o columns_of_tables(md, current_db, names, w, i + 1)

\* (mutant: get_column_suggestions_for_query pushing every column twice)
get_column_suggestions_for_query_twice(md, current_db, query, w) ==
    columns_of_tables(md, current_db, extract_table_names_from_query(query), w, 1)
    \o columns_of_tables(md, current_db, extract_table_names_from_query(query), w, 1)

\* get_column_suggestions_for_query once the metadata lock is taken and
\* table_names is not empty
get_column_suggestions_for_query(md, current_db, query, w) ==
    columns_of_tables(md, current_db, extract_table_names_from_query(query), w, 1)

\* get_limited_column_suggestions once the metadata lock is taken
limited_candidate(pair, w) ==
    [keep |-> calculate_relevance(pair[2], w, 80) > 70,
     suggestion |-> Suggestion_column(pair[2], pair[1],
                                      calculate_relevance(pair[2], w, 80))]

truncate(s, limit) == SubSeq(s, 1, min(Len(s), limit))

limited_columns(all, w, limit) ==
    truncate(collect([i \in 1..Len(all) |-> limited_candidate(all[i], w)], 1, <<>>),
             limit)

get_limited_column_suggestions(md, w, limit, order) ==
    limited_columns(get_all_columns(md, order), w, limit)

\* suggestions.sort_by(|a, b| b.relevance.cmp(&a.relevance)): a stable sort,
\* highest relevance first; the suggestions of relevance r, r - 1, ..., 0
RECURSIVE sorted_from(_, _)
sorted_from(s, r) ==
    IF r < 0 THEN <<>>
    ELSE SelectSeq(s, LAMBDA x : x.relevance = r) \o sorted_from(s, r - 1)

\* (mutant: a sort that does not keep the order of equal elements)
sort_by_relevance_unstable(s) ==
    sorted_from([i \in 1..Len(s) |-> s[Len(s) + 1 - i]], 100)

sort_by_relevance(s) == sorted_from(s, 100)

\* (mutant: get_suggestions without the truncation)
suggestion_limit_none(ctx) == 100

\* `let limit = match context`
suggestion_limit(ctx) ==
    CASE ctx = "UseCommand" -> 20
      [] ctx \in {"FromClause", "InsertIntoClause", "UpdateClause"} -> 15
      [] ctx = "SelectClause" -> 12
      [] ctx \in {"WhereClause", "HavingClause", "JoinOnClause",
                  "OrderByClause", "GroupByClause"} -> 15
      [] OTHER -> 10

\* one source of suggestions that get_suggestions consults
Lookup(kind, limit) == [kind |-> kind, limit |-> limit]

\* the sources that read the metadata, each behind metadata.try_lock()
MetadataLookups == {"databases", "tables", "columns_for_query", "limited_columns"}

\* the SelectClause arm
select_lookups(line_upper, word_lower) ==
    IF ~contains(line_upper, kw["FROM"])
    THEN IF trim(line_upper) = kw["SELECT"] \/ trim(line_upper) = kw["SELECT"] \o <<" ">>
         THEN <<Lookup("keywords", 0)>>
              \o (IF word_lower = <<>> THEN <<Lookup("select_star", 0)>> ELSE <<>>)
         ELSE <<Lookup("functions", 0), Lookup("keywords", 0)>>
              \o (IF word_lower # <<>> /\ Len(word_lower) >= 2
                  THEN <<Lookup("limited_columns", 10)>> ELSE <<>>)
    ELSE <<Lookup("columns_for_query", 0), Lookup("functions", 0)>>

\* `match context`: the sources consulted, in order
context_lookups(ctx, line_upper, w) ==
    CASE ctx = "UseCommand" -> <<Lookup("databases", 0), Lookup("no_databases", 0)>>
      [] ctx = "FromClause" -> <<Lookup("tables", 0), Lookup("no_tables", 0)>>
      [] ctx = "SelectClause" -> select_lookups(line_upper, to_lowercase(w))
      [] ctx \in {"WhereClause", "HavingClause", "JoinOnClause"} ->
            <<Lookup("columns_for_query", 0), Lookup("conditions", 0)>>
      [] ctx \in {"OrderByClause", "GroupByClause"} -> <<Lookup("columns_for_query", 0)>>
      [] ctx \in {"InsertIntoClause", "UpdateClause"} -> <<Lookup("tables", 0)>>
      [] OTHER -> <<Lookup("keywords", 0)>>
                  \o (IF w = <<>> THEN <<Lookup("commands", 0)>> ELSE <<>>)

\* what a source that reads no metadata contributes, given the suggestions
\* collected so far
local_suggestions(kind, so_far, w) ==
    CASE kind = "no_databases" ->
            IF so_far = <<>> /\ w = <<>> THEN <<no_databases_placeholder>> ELSE <<>>
      [] kind = "no_tables" ->
            IF so_far = <<>> /\ w = <<>> THEN <<no_tables_placeholder>> ELSE <<>>
      [] kind = "keywords" -> get_sql_keyword_suggestions(to_lowercase(w))
      [] kind = "select_star" -> select_star_suggestions
      [] kind = "functions" -> get_function_suggestions(to_lowercase(w))
      [] kind = "conditions" -> get_condition_suggestions(to_lowercase(w))
      [] kind = "commands" -> get_common_command_suggestions

\* (mutant: get_column_suggestions_for_query keeps its guard over the
\* nested call)
drop_metadata_missing(holder) == holder

\* drop(metadata): the guard is released
drop_metadata(holder) == "free"

\* (mutant: try_lock succeeding whoever holds the lock)
try_lock_unguarded(holder) == TRUE

\* self.metadata.try_lock() is Ok exactly when nobody holds the lock
try_lock(holder) == holder = "free"

(***************************************************************************)
(* Input lines: up to MaxFrags fragments of the vocabulary, joined by one  *)
(* separator character and optionally followed by trailing whitespace.     *)
(***************************************************************************)
MaxFrags == 3

Fragments ==
    { <<kw["SELECT"]>>, <<<<"*">>>>, <<kw["FROM"]>>, <<kw["WHERE"]>>, <<kw["JOIN"]>>, <<kw["ON"]>>,
      <<kw["ORDER"], kw["BY"]>>, <<kw["GROUP"], kw["BY"]>>, <<kw["HAVING"]>>, <<kw["USE"]>>, <<<<"u","s","e">>>>,
      <<<<"t">>>>, <<<<"p","e","r","s","o","n">>>>, <<<<"=">>, <<"1">>>>,
      <<<<";">>>>, <<<<"s","e","n","t","_","f","r","o","m">>>>,
      <<kw["SELECT"], <<"*">>, kw["FROM"], <<"t">>>>,
      <<<<"w","h","e","r","e">>, <<"x">>>>,
      <<kw["INSERT"]>>, <<kw["INSERT"], kw["INTO"]>>, <<kw["UPDATE"]>>,
      <<kw["SET"], <<"x">>, <<"=">>, <<"1">>>>, <<kw["DESCRIBE"]>> }

Separators == { <<" ">>, <<"\t">> }
Trailers == { <<>>, <<" ">> }

RECURSIVE Flatten(_)
Flatten(ss) == IF ss = <<>> THEN <<>> ELSE Head(ss) \o Flatten(Tail(ss))

RECURSIVE JoinWords(_, _)
JoinWords(ws, sep) ==
    IF ws = <<>> THEN <<>>
    ELSE IF Len(ws) = 1 THEN ws[1]
    ELSE ws[1] \o sep \o JoinWords(Tail(ws), sep)

(***************************************************************************)
(* The parts of the state an operation under study does not involve        *)
(***************************************************************************)
NoMetadata ==
    /\ databases = <<>> /\ tables = <<>> /\ columns = <<>>
    /\ last_update = 0 /\ has_loaded = FALSE

NoConnection ==
    /\ now = 0 /\ server = <<>> /\ queries = 0 /\ calls = 0
    /\ op = "none" /\ ret = "none" /\ issued = 0

NoEngine ==
    /\ current_database = <<>> /\ metadata_lock = "free"
    /\ suggestions = <<>> /\ todo = <<>> /\ lookups = <<>> /\ table_names = <<>>

NoCli ==
    /\ pos = 0 /\ start = 0
    /\ cli_current_database = <<>> /\ commands = 0 /\ refresher = "idle"

(***************************************************************************)
(* SpecCtx: analyze_context applied to every input line                   *)
(***************************************************************************)
InitCtx ==
    /\ pc = "ctx_input"
    /\ \E n \in 0..MaxFrags : \E f \in [1..n -> Fragments] :
          \E sep \in Separators : \E tr \in Trailers :
             line = JoinWords(Flatten(f), sep) \o tr
    /\ context = "unset"
    /\ word = <<>> /\ base_score = 0 /\ relevance = <<>>
    /\ NoMetadata /\ NoConnection /\ NoEngine /\ NoCli

AnalyzeContext ==
    /\ pc = "ctx_input"
    /\ context' = analyze_context(line)
    /\ pc' = "ctx_done"
    /\ UNCHANGED <<cli_vars, line, rel_vars, md_vars, conn_vars, sug_vars>>

NextCtx == AnalyzeContext

SpecCtx == InitCtx /\ [][NextCtx]_vars

(***************************************************************************)
(* SpecRel: calculate_relevance applied to candidates that share a typed   *)
(* word and a base score                                                   *)
(***************************************************************************)
MaxBaseScore == 100

RelItems == { nm["OR"], kw["ORDER"], nm["orders"], nm["information_schema"], nm["users"] }

RelWords == { <<>>, <<"o","r">>, <<"O","R">>, <<"o">>, nm["users"], <<"o","r","d","e","r">> }

InitRel ==
    /\ pc = "rel"
    /\ word \in RelWords
    /\ base_score \in 0..MaxBaseScore
    /\ relevance = <<>>
    /\ line = <<>> /\ context = "unset"
    /\ NoMetadata /\ NoConnection /\ NoEngine /\ NoCli

\* one candidate is scored
Score(item) ==
    /\ pc = "rel"
    /\ item \notin DOMAIN relevance
    /\ relevance' = relevance @@ (item :> calculate_relevance(item, word, base_score))
    /\ UNCHANGED <<cli_vars, pc, word, base_score, ctx_vars, md_vars, conn_vars, sug_vars>>

NextRel == \E item \in RelItems : Score(item)

SpecRel == InitRel /\ [][NextRel]_vars

(***************************************************************************)
(* SpecMeta: a DatabaseMetadata, its connection and the clock.  Every call *)
(* happens d ticks after the previous one.                                 *)
(***************************************************************************)
MaxCalls == 3

CatalogFixture ==
    [databases |-> <<nm["information_schema"], nm["mysql"], nm["performance_schema"],
                     nm["sys"], nm["test_db"], nm["sales"]>>,
     tables |-> (nm["test_db"] :> <<nm["users"], nm["orders"]>>) @@ (nm["sales"] :> <<nm["orders"]>>),
     columns |-> (<<nm["test_db"], nm["users"]>> :> <<nm["id"], nm["name"], nm["email"]>>)
              @@ (<<nm["test_db"], nm["orders"]>> :> <<nm["order_id"], nm["user_id"], nm["amount"]>>)
              @@ (<<nm["sales"], nm["orders"]>> :> <<nm["order_id"], nm["amount"]>>)]

\* the fixture after CREATE TABLE test_db.items (id)
CatalogAfterDDL ==
    [databases |-> <<nm["information_schema"], nm["mysql"], nm["performance_schema"],
                     nm["sys"], nm["test_db"], nm["sales"]>>,
     tables |-> (nm["test_db"] :> <<nm["users"], nm["orders"], nm["items"]>>) @@ (nm["sales"] :> <<nm["orders"]>>),
     columns |-> (<<nm["test_db"], nm["users"]>> :> <<nm["id"], nm["name"], nm["email"]>>)
              @@ (<<nm["test_db"], nm["orders"]>> :> <<nm["order_id"], nm["user_id"], nm["amount"]>>)
              @@ (<<nm["test_db"], nm["items"]>> :> <<nm["id"]>>)
              @@ (<<nm["sales"], nm["orders"]>> :> <<nm["order_id"], nm["amount"]>>)]

NoFailure == [show_databases |-> FALSE, show_tables |-> {}, show_columns |-> {}]

\* which of the queries of one enumeration the server answers with an error
\* the connection is lost: every query from one point of the enumeration on
\* is answered with an error.  The points are the first query, the first
\* SHOW TABLES, and the first SHOW COLUMNS (test_db.users)
ConnectionLost ==
    { [show_databases |-> TRUE, show_tables |-> {nm["test_db"], nm["sales"]},
       show_columns |-> DOMAIN CatalogAfterDDL.columns],
      [show_databases |-> FALSE, show_tables |-> {nm["test_db"], nm["sales"]},
       show_columns |-> DOMAIN CatalogAfterDDL.columns],
      [show_databases |-> FALSE, show_tables |-> {nm["sales"]},
       show_columns |-> DOMAIN CatalogAfterDDL.columns] }

Failures ==
    { NoFailure,
      [NoFailure EXCEPT !.show_databases = TRUE],
      [NoFailure EXCEPT !.show_tables = {nm["sales"]}],
      [NoFailure EXCEPT !.show_tables = {nm["test_db"]}],
      [NoFailure EXCEPT !.show_columns = {<<nm["test_db"], nm["orders"]>>}] }
    \cup ConnectionLost

\* time between two calls: none, half a second, and the instants around
\* the expiry of the cache
Delays ==
    { 0, 1 } \cup { REFRESH_SECS * TicksPerSecond + k : k \in (0 - 2) .. 2 }

InitMeta ==
    /\ pc = "meta"
    /\ databases = new_metadata(0).databases
    /\ tables = new_metadata(0).tables
    /\ columns = new_metadata(0).columns
    /\ last_update = new_metadata(0).last_update
    /\ has_loaded = new_metadata(0).has_loaded
    /\ now = 0 /\ server = CatalogFixture
    /\ queries = 0 /\ calls = 0 /\ op = "none" /\ ret = "none" /\ issued = 0
    /\ line = <<>> /\ context = "unset"
    /\ word = <<>> /\ base_score = 0 /\ relevance = <<>>
    /\ NoEngine /\ NoCli

\* the outcome r of update_from_connection is stored and returned
Return(r) ==
    /\ databases' = r.md.databases
    /\ tables' = r.md.tables
    /\ columns' = r.md.columns
    /\ last_update' = r.md.last_update
    /\ has_loaded' = r.md.has_loaded
    /\ issued' = r.issued
    /\ queries' = queries + r.issued
    /\ ret' = r.result

UpdateFromConnection(d, fail) ==
    /\ pc = "meta" /\ calls < MaxCalls
    /\ now' = now + d
    /\ Return(update_from_connection(Metadata, now + d, server, fail))
    /\ op' = "update_from_connection"
    /\ calls' = calls + 1
    /\ UNCHANGED <<cli_vars, pc, server, ctx_vars, rel_vars, sug_vars>>

NeedsRefresh(d) ==
    /\ pc = "meta" /\ calls < MaxCalls
    /\ now' = now + d
    /\ ret' = IF needs_refresh(Metadata, now + d) THEN "true" ELSE "false"
    /\ op' = "needs_refresh"
    /\ issued' = 0
    /\ calls' = calls + 1
    /\ UNCHANGED <<cli_vars, pc, server, queries, md_vars, ctx_vars, rel_vars, sug_vars>>

\* a DDL statement changes the schema on the server
ServerDDL ==
    /\ pc = "meta" /\ server = CatalogFixture
    /\ server' = CatalogAfterDDL
    /\ UNCHANGED <<cli_vars, pc, now, queries, calls, op, ret, issued, md_vars, ctx_vars, rel_vars, sug_vars>>

NextMeta ==
    \/ \E d \in Delays : \E fail \in Failures : UpdateFromConnection(d, fail)
    \/ \E d \in Delays : NeedsRefresh(d)
    \/ ServerDDL

SpecMeta == InitMeta /\ [][NextMeta]_vars

(***************************************************************************)
(* SpecCase: the same DatabaseMetadata against a server with a case-       *)
(* sensitive file system, where names may differ in letter case only.      *)
(***************************************************************************)
\* databases Sales and sales, and tables test_db.Users and test_db.users
CatalogMixedCase ==
    [databases |-> <<nm["information_schema"], nm["mysql"],
                     <<"S","a","l","e","s">>, nm["sales"], nm["test_db"]>>,
     tables |-> (<<"S","a","l","e","s">> :> <<nm["items"]>>)
             @@ (nm["sales"] :> <<nm["orders"]>>)
             @@ (nm["test_db"] :> <<<<"U","s","e","r","s">>, nm["users"]>>),
     columns |-> (<<<<"S","a","l","e","s">>, nm["items"]>> :> <<nm["id"]>>)
              @@ (<<nm["sales"], nm["orders"]>> :> <<nm["order_id"], nm["amount"]>>)
              @@ (<<nm["test_db"], <<"U","s","e","r","s">>>> :> <<nm["id"], nm["name"]>>)
              @@ (<<nm["test_db"], nm["users"]>> :> <<nm["id"], nm["name"], nm["email"]>>)]

CaseFailures ==
    { NoFailure,
      [NoFailure EXCEPT !.show_databases = TRUE],
      [NoFailure EXCEPT !.show_tables = {nm["sales"]}],
      [NoFailure EXCEPT !.show_columns = {<<nm["test_db"], nm["users"]>>}] }

InitCase ==
    /\ pc = "meta"
    /\ databases = new_metadata(0).databases
    /\ tables = new_metadata(0).tables
    /\ columns = new_metadata(0).columns
    /\ last_update = new_metadata(0).last_update
    /\ has_loaded = new_metadata(0).has_loaded
    /\ now = 0 /\ server = CatalogMixedCase
    /\ queries = 0 /\ calls = 0 /\ op = "none" /\ ret = "none" /\ issued = 0
    /\ line = <<>> /\ context = "unset"
    /\ word = <<>> /\ base_score = 0 /\ relevance = <<>>
    /\ NoEngine /\ NoCli

NextCase ==
    \/ \E d \in Delays : \E fail \in CaseFailures : UpdateFromConnection(d, fail)
    \/ \E d \in Delays : NeedsRefresh(d)

SpecCase == InitCase /\ [][NextCase]_vars

(***************************************************************************)
(* SpecSug: get_suggestions, step by step at its metadata.try_lock()       *)
(* calls, next to a thread that refreshes the metadata under               *)
(* metadata.lock().  The engine is built as create_test_engine builds it.  *)
(***************************************************************************)
NumDatabases == 21
NumTables == 16
NumColumns == 21

DigitChars == <<"0","1","2","3","4","5","6","7","8","9">>

\* format!("{}{:02}", prefix, i)
numbered(prefix, i) == prefix \o <<DigitChars[(i \div 10) + 1], DigitChars[(i % 10) + 1]>>


\* the cache of create_test_engine
FixtureMetadata ==
    [databases |-> <<nm["test_db"], nm["sales"]>>,
     tables |-> (nm["test_db"] :> <<nm["users"], nm["orders"]>>),
     columns |-> (format_key(nm["test_db"], nm["users"]) :> <<nm["id"], nm["name"], nm["email"]>>)
              @@ (format_key(nm["test_db"], nm["orders"]) :> <<nm["order_id"], nm["user_id"], nm["amount"]>>),
     last_update |-> 0, has_loaded |-> FALSE]

\* a cache with more databases, tables and columns than any limit
LargeMetadata ==
    [databases |-> [i \in 1..NumDatabases |-> numbered(<<"d","b">>, i)],
     tables |-> (nm["db01"] :> [i \in 1..NumTables |-> numbered(<<"t">>, i)]),
     columns |-> (format_key(nm["db01"], nm["t01"]) :> [i \in 1..NumColumns |-> numbered(<<"c">>, i)]),
     last_update |-> 0, has_loaded |-> FALSE]


\* the lines given to get_suggestions, as words
SugQueries ==
    { <<>>, <<kw["USE"], <<>>>>, <<kw["SELECT"], <<>>>>, <<kw["SELECT"], <<"u">>>>,
      <<kw["SELECT"], <<"s","e","n","t","_","f","r","o","m">>>>,
      <<kw["SELECT"], kw["*"], kw["FROM"], <<>>>>,
      <<kw["SELECT"], kw["*"], kw["FROM"], nm["users"], kw["WHERE"], <<>>>>,
      <<<<"s","e","l","e","c","t">>, kw["*"], <<"f","r","o","m">>, nm["orders"],
        <<"w","h","e","r","e">>>>,
      <<kw["SELECT"], kw["*"], kw["FROM"], nm["t01"], kw["WHERE"], <<>>>>,
      <<kw["SELECT"], kw["*"], kw["FROM"], nm["users"], kw["JOIN"], nm["orders"], kw["ON"], <<>>>>,
      <<kw["SELECT"], kw["*"], kw["FROM"], nm["users"], kw["JOIN"], nm["users"], kw["ON"], <<>>>>,
      <<kw["SELECT"], kw["*"], kw["FROM"], nm["users"], kw["ORDER"], kw["BY"], <<>>>>,
      <<kw["SELECT"], kw["*"], kw["FROM"], nm["orders"], kw["GROUP"], kw["BY"], <<>>>>,
      <<kw["SELECT"], kw["*"], kw["FROM"], nm["orders"], kw["GROUP"], kw["BY"], nm["user_id"], kw["HAVING"], <<>>>>,
      <<kw["WHERE"], <<>>>>, <<kw["INSERT"], kw["INTO"], <<>>>>, <<kw["UPDATE"], <<>>>> }

SugLines == { JoinWords(q, <<" ">>) : q \in SugQueries }

SugWords == { <<>>, <<"u">>, <<"o","r">>, nm["orders"] }

SugDatabases == { <<>>, <<nm["test_db"]>>, <<nm["db01"]>> }

InitSug ==
    /\ pc = "sug_idle"
    /\ \E md \in {FixtureMetadata, LargeMetadata, new_metadata(0)} :
          /\ databases = md.databases /\ tables = md.tables /\ columns = md.columns
          /\ last_update = md.last_update /\ has_loaded = md.has_loaded
    /\ now = 0 /\ server = CatalogFixture
    /\ queries = 0 /\ calls = 0 /\ op = "none" /\ ret = "none" /\ issued = 0
    /\ line = <<>> /\ context = "unset"
    /\ word = <<>> /\ base_score = 0 /\ relevance = <<>>
    /\ NoEngine /\ NoCli

\* set_current_database, between two completions
SetCurrentDatabase(database) ==
    /\ pc \in {"sug_idle", "sug_done"}
    /\ current_database # database
    /\ current_database' = database
    /\ UNCHANGED <<cli_vars, table_names, pc, metadata_lock, suggestions, todo, lookups,
                   ctx_vars, rel_vars, md_vars, conn_vars>>

\* get_suggestions up to `match context`
GetSuggestions(l, w) ==
    /\ pc \in {"sug_idle", "sug_done"}
    /\ line' = l /\ word' = w
    /\ context' = analyze_context(to_uppercase(l))
    /\ todo' = context_lookups(context', to_uppercase(l), w)
    /\ suggestions' = <<>> /\ lookups' = <<>>
    /\ pc' = "sug_lookup"
    /\ UNCHANGED <<cli_vars, table_names, current_database, metadata_lock, base_score, relevance,
                   md_vars, conn_vars>>

\* a source that reads no metadata is consulted
LocalLookup ==
    /\ pc = "sug_lookup" /\ todo # <<>>
    /\ Head(todo).kind \notin MetadataLookups
    /\ suggestions' = suggestions \o local_suggestions(Head(todo).kind, suggestions, word)
    /\ todo' = Tail(todo)
    /\ UNCHANGED <<cli_vars, table_names, pc, current_database, metadata_lock, lookups,
                   ctx_vars, rel_vars, md_vars, conn_vars>>

\* metadata.try_lock() returns Ok(guard)
TryLockOk ==
    /\ pc = "sug_lookup" /\ todo # <<>>
    /\ Head(todo).kind \in MetadataLookups
    /\ try_lock(metadata_lock)
    /\ metadata_lock' = "engine"
    /\ pc' = "sug_locked"
    /\ UNCHANGED <<cli_vars, table_names, current_database, suggestions, todo, lookups,
                   ctx_vars, rel_vars, md_vars, conn_vars>>

\* metadata.try_lock() returns Err: `return Vec::new()`
TryLockErr ==
    /\ pc = "sug_lookup" /\ todo # <<>>
    /\ Head(todo).kind \in MetadataLookups
    /\ ~try_lock(metadata_lock)
    /\ lookups' = Append(lookups, [kind |-> Head(todo).kind, locked_out |-> TRUE,
                                   items |-> <<>>])
    /\ todo' = Tail(todo)
    /\ UNCHANGED <<cli_vars, table_names, pc, current_database, metadata_lock, suggestions,
                   ctx_vars, rel_vars, md_vars, conn_vars>>

\* the lookup at the head of todo returns `items`; its guard is dropped
ReturnItems(items) ==
    /\ suggestions' = suggestions \o items
    /\ lookups' = Append(lookups, [kind |-> Head(todo).kind, locked_out |-> FALSE,
                                   items |-> items])
    /\ todo' = Tail(todo)
    /\ metadata_lock' = "free"
    /\ pc' = "sug_lookup"
    /\ UNCHANGED <<cli_vars, table_names, current_database, ctx_vars, rel_vars, md_vars, conn_vars>>

ReadDatabases ==
    /\ pc = "sug_locked" /\ Head(todo).kind = "databases"
    /\ ReturnItems(get_database_suggestions(Metadata, to_lowercase(word)))

ReadTables ==
    /\ pc = "sug_locked" /\ Head(todo).kind = "tables"
    /\ \E order \in IterationOrders(tables) :
          ReturnItems(get_table_suggestions(Metadata, current_database,
                                            to_lowercase(word), order))

ReadColumnsForQuery ==
    /\ pc = "sug_locked" /\ Head(todo).kind = "columns_for_query"
    /\ extract_table_names_from_query(to_uppercase(line)) # <<>>
    /\ ReturnItems(get_column_suggestions_for_query(Metadata, current_database,
                        to_uppercase(line), to_lowercase(word)))

\* no table is named: the guard is dropped and the call is handed to
\* get_limited_column_suggestions(word, 20)
FallBackToLimitedColumns ==
    /\ pc = "sug_locked" /\ Head(todo).kind = "columns_for_query"
    /\ extract_table_names_from_query(to_uppercase(line)) = <<>>
    /\ metadata_lock' = drop_metadata(metadata_lock)
    /\ todo' = <<Lookup("limited_columns", 20)>> \o Tail(todo)
    /\ pc' = "sug_lookup"
    /\ UNCHANGED <<cli_vars, table_names, current_database, suggestions, lookups,
                   ctx_vars, rel_vars, md_vars, conn_vars>>

ReadLimitedColumns ==
    /\ pc = "sug_locked" /\ Head(todo).kind = "limited_columns"
    /\ \E order \in IterationOrders(columns) :
          ReturnItems(get_limited_column_suggestions(Metadata, to_lowercase(word),
                                                     Head(todo).limit, order))

\* the end of get_suggestions: sort, truncate, return
ReturnSuggestions ==
    /\ pc = "sug_lookup" /\ todo = <<>>
    /\ suggestions' = truncate(sort_by_relevance(suggestions), suggestion_limit(context))
    /\ pc' = "sug_done"
    /\ UNCHANGED <<cli_vars, table_names, current_database, metadata_lock, todo, lookups,
                   ctx_vars, rel_vars, md_vars, conn_vars>>

\* Cli::update_metadata on another thread: metadata.lock() ...
RefreshLock ==
    /\ metadata_lock = "free" /\ calls < MaxCalls
    /\ pc \in {"sug_idle", "sug_lookup", "sug_locked", "sug_done"}
    /\ metadata_lock' = "refresher"
    /\ refresher' = "locked"
    /\ UNCHANGED <<pos, start, cli_current_database, commands, table_names, pc, current_database,
                   suggestions, todo, lookups, ctx_vars, rel_vars, md_vars, conn_vars>>

\* ... update_from_connection finds the cache stale, SHOW DATABASES is
\* answered: self.databases = databases.clone(); self.tables.clear();
\* self.columns.clear(); ...
RefreshClear ==
    /\ metadata_lock = "refresher" /\ refresher = "locked"
    /\ needs_refresh(Metadata, now)
    /\ databases' = server.databases
    /\ tables' = <<>> /\ columns' = <<>>
    /\ refresher' = "cleared"
    /\ UNCHANGED <<pos, start, cli_current_database, commands, sug_vars, pc, last_update, has_loaded,
                   ctx_vars, rel_vars, conn_vars>>

\* the index of the first database of dbs that is not a system database
first_listed(dbs) ==
    CHOOSE i \in 1..Len(dbs) :
        ~is_system_database(dbs[i]) /\ \A j \in 1..(i - 1) : is_system_database(dbs[j])

\* ... the `for db in &databases` loop has stored the tables and columns of
\* the first database that is not a system database ...
RefreshLoad ==
    /\ metadata_lock = "refresher" /\ refresher = "cleared"
    /\ \E i \in 1..Len(databases) : ~is_system_database(databases[i])
    /\ tables' = load_tables(SubSeq(databases, 1, first_listed(databases)), 1, server, NoFailure,
                             [tables |-> <<>>, columns |-> <<>>, issued |-> 1]).tables
    /\ columns' = load_tables(SubSeq(databases, 1, first_listed(databases)), 1, server, NoFailure,
                              [tables |-> <<>>, columns |-> <<>>, issued |-> 1]).columns
    /\ refresher' = "loading"
    /\ UNCHANGED <<pos, start, cli_current_database, commands, sug_vars, pc, databases, last_update,
                   has_loaded, ctx_vars, rel_vars, conn_vars>>

\* ... the call returns (at once when the cache is fresh), and the guard is
\* dropped
RefreshUnlock ==
    /\ metadata_lock = "refresher"
    /\ \/ refresher = "locked" /\ ~needs_refresh(Metadata, now)
       \/ refresher = "loading"
    /\ Return(update_from_connection(Metadata, now, server, NoFailure))
    /\ op' = "update_from_connection"
    /\ calls' = calls + 1
    /\ metadata_lock' = "free"
    /\ refresher' = "idle"
    /\ UNCHANGED <<pos, start, cli_current_database, commands, table_names, pc, now, server,
                   current_database, suggestions, todo, lookups, ctx_vars, rel_vars>>

\* the queries of direct calls of get_column_suggestions_for_query, as
\* engine_tests.rs makes them: each names a table after FROM
ColumnQueries ==
    { <<<<"s","e","l","e","c","t">>, kw["*"], <<"f","r","o","m">>, nm["orders"],
        <<"w","h","e","r","e">>>>,
      <<kw["SELECT"], kw["*"], kw["FROM"], nm["users"], kw["WHERE"]>> }

\* get_column_suggestions_for_query(query, w) called on the engine as built,
\* after set_current_database: Vec::new() when try_lock fails, the columns
\* of the tables the query names otherwise
GetColumnSuggestionsForQuery(query, w) ==
    /\ pc = "sug_idle"
    /\ extract_table_names_from_query(query) # <<>>
    /\ line' = query /\ word' = w
    /\ suggestions' =
          IF try_lock(metadata_lock)
          THEN get_column_suggestions_for_query(Metadata, current_database, query, w)
          ELSE <<>>
    /\ lookups' = <<[kind |-> "columns_for_query", locked_out |-> ~try_lock(metadata_lock),
                     items |-> suggestions']>>
    /\ pc' = "columns_done"
    /\ UNCHANGED <<cli_vars, table_names, current_database, metadata_lock, todo, context,
                   base_score, relevance, md_vars, conn_vars>>

EngineStep ==
    \/ LocalLookup \/ TryLockOk \/ TryLockErr
    \/ ReadDatabases \/ ReadTables \/ ReadColumnsForQuery
    \/ FallBackToLimitedColumns \/ ReadLimitedColumns
    \/ ReturnSuggestions

NextSug ==
    \/ \E database \in SugDatabases : SetCurrentDatabase(database)
    \/ \E l \in SugLines : \E w \in SugWords : GetSuggestions(l, w)
    \/ \E q \in ColumnQueries : \E w \in SugWords :
          GetColumnSuggestionsForQuery(JoinWords(q, <<" ">>), w)
    \/ EngineStep
    \/ RefreshLock \/ RefreshClear \/ RefreshLoad \/ RefreshUnlock

SpecSug == InitSug /\ [][NextSug]_vars

(***************************************************************************)
(* SpecWord: MySQLCompleter::complete up to its call of get_suggestions    *)
(* (helper.rs).  A str is indexed by bytes: byte_len(s, n) is the offset   *)
(* at which the char after the first n chars starts.                       *)
(***************************************************************************)
RECURSIVE byte_len(_, _)
byte_len(s, n) == IF n = 0 THEN 0 ELSE byte_len(s, n - 1) + len_utf8(s[n])

is_char_boundary(s, b) == \E n \in 0..Len(s) : byte_len(s, n) = b

\* the closure handed to rfind
is_word_delimiter(c) == is_whitespace(c) \/ c \in {"(", ",", ".", ";"}

\* line[..p].rfind(closure): the byte offset of the last matching char, -1
\* for None
RECURSIVE rfind_delimiter(_, _, _)
rfind_delimiter(s, p, n) ==
    IF n = 0 THEN 0 - 1
    ELSE IF byte_len(s, n) <= p /\ is_word_delimiter(s[n]) THEN byte_len(s, n - 1)
    ELSE rfind_delimiter(s, p, n - 1)

\* .map(|i| i + 1).unwrap_or(0)
get_word_start(l, p) ==
    IF rfind_delimiter(l, p, Len(l)) = 0 - 1 THEN 0 ELSE rfind_delimiter(l, p, Len(l)) + 1

\* the chars of s between the byte offsets a and b
chars_between(s, a, b) ==
    SubSeq(s, (CHOOSE n \in 0..Len(s) : byte_len(s, n) = a) + 1,
              CHOOSE n \in 0..Len(s) : byte_len(s, n) = b)

\* &line[a..b]: a str slice panics unless both ends are char boundaries
slice(s, a, b) ==
    IF a <= b /\ is_char_boundary(s, a) /\ is_char_boundary(s, b)
    THEN [panics |-> FALSE, text |-> chars_between(s, a, b)]
    ELSE [panics |-> TRUE, text |-> <<>>]

MaxLineChars == 4

LineChars == { "a", E_ACUTE, " ", "\t", IDEOGRAPHIC_SPACE, "(", ",", ".", ";" }

\* the editor hands over its line and a cursor that stands between two chars
InitWord ==
    /\ pc = "word_input"
    /\ \E n \in 0..MaxLineChars : \E l \in [1..n -> LineChars] : \E k \in 0..n :
          line = l /\ pos = byte_len(l, k)
    /\ start = 0 /\ cli_current_database = <<>> /\ commands = 0 /\ refresher = "idle"
    /\ context = "unset"
    /\ word = <<>> /\ base_score = 0 /\ relevance = <<>>
    /\ NoMetadata /\ NoConnection /\ NoEngine

\* let start = self.get_word_start(line, pos);
GetWordStart ==
    /\ pc = "word_input"
    /\ start' = get_word_start(line, pos)
    /\ pc' = "word_start"
    /\ UNCHANGED <<pos, cli_current_database, commands, refresher, ctx_vars, rel_vars, md_vars,
                   conn_vars, sug_vars>>

\* let word = &line[start..pos];
SliceWord ==
    /\ pc = "word_start"
    /\ word' = slice(line, start, pos).text
    /\ ret' = IF slice(line, start, pos).panics THEN "panic" ELSE "Ok"
    /\ op' = "complete"
    /\ pc' = "word_done"
    /\ UNCHANGED <<cli_vars, ctx_vars, base_score, relevance, md_vars,
                   now, server, queries, calls, issued, sug_vars>>

NextWord == GetWordStart \/ SliceWord

SpecWord == InitWord /\ [][NextWord]_vars

(***************************************************************************)
(* SpecCli: the read-eval loop of Cli (cli.rs) with QueryExecutor          *)
(* (commands/query.rs): each step is one line read at the prompt, handled  *)
(* to the end, d ticks after the previous one.  The state of the session   *)
(* is passed through the handlers as a record st.                          *)
(***************************************************************************)
\* the string literals of cli.rs, by their text
cw ==
    "CREATE" :> <<"C","R","E","A","T","E">>
    @@ "DROP" :> <<"D","R","O","P">>
    @@ "ALTER" :> <<"A","L","T","E","R">>
    @@ "USE " :> <<"U","S","E"," ">>
    @@ "\\u " :> <<"\\","u"," ">>
    @@ "\\g" :> <<"\\","g">>
    @@ "TABLE" :> <<"T","A","B","L","E">>
    @@ "nosuch" :> <<"n","o","s","u","c","h">>

\* the server executes query on the session: USE of a database it has, a
\* SELECT, and CREATE TABLE items while test_db has no such table succeed,
\* everything else is rejected
server_accepts(srv, words) ==
    IF words = <<>> THEN FALSE
    ELSE IF to_uppercase(words[1]) = kw["USE"]
    THEN Len(words) = 2
         /\ \E i \in DOMAIN srv.databases : srv.databases[i] = trim_matches(words[2], BACKTICK)
    ELSE IF to_uppercase(words[1]) = cw["CREATE"]
    THEN Len(words) = 3 /\ words[3] = nm["items"] /\ srv = CatalogFixture
    ELSE to_uppercase(words[1]) = kw["SELECT"]

\* Connection::execute_query: the server's schema after query, and its answer
connection_execute_query(st, query) ==
    [st EXCEPT !.queries = @ + 1,
               !.answer = IF server_accepts(st.server, split_whitespace(query))
                          THEN "Ok" ELSE "Err",
               !.server = IF /\ server_accepts(st.server, split_whitespace(query))
                             /\ to_uppercase(split_whitespace(query)[1]) = cw["CREATE"]
                          THEN CatalogAfterDDL ELSE @]

\* QueryExecutor::execute: the Err arm of its match prints the error, and
\* the function ends with Ok(()) on every path
QueryExecutor_execute(st, query) ==
    IF trim(query) = <<>>
    THEN [st |-> st, result |-> "Ok"]
    ELSE [st |-> connection_execute_query(st, query), result |-> "Ok"]

\* if let Ok(mut meta) = self.metadata.lock() { let _ = meta.update_from_connection(..) }
refresh_applied(st, r) ==
    [st EXCEPT !.md = r.md, !.queries = @ + r.issued, !.issued = @ + r.issued,
               !.calls = @ + 1]

update_metadata(st) ==
    refresh_applied(st, update_from_connection(st.md, st.now, st.server, NoFailure))

\* (mutant: set_current_database finding its mutex poisoned)
set_current_database_poisoned(st, database) == st

\* SmartSuggestionEngine::set_current_database, through MySQLHelper
set_current_database(st, database) == [st EXCEPT !.engine_db = database]

\* self.current_database = Some(name); helper.set_current_database(self.current_database.clone())
assign_current_database(st, name) ==
    set_current_database([st EXCEPT !.cli_db = <<name>>], <<name>>)

\* execute_query, `if trimmed_query.starts_with("USE")`
use_executed(st, words) ==
    IF Len(words) >= 2
    THEN update_metadata(assign_current_database(st, trim_matches(words[2], BACKTICK)))
    ELSE st

should_refresh_metadata(trimmed_query) ==
    \/ starts_with(trimmed_query, cw["CREATE"])
    \/ starts_with(trimmed_query, cw["DROP"])
    \/ starts_with(trimmed_query, cw["ALTER"])
    \/ starts_with(trimmed_query, kw["USE"])

\* execute_query after self.query_executor.execute returned result
after_execute(st, result, trimmed_query, query) ==
    IF result = "Ok" /\ should_refresh_metadata(trimmed_query)
    THEN IF starts_with(trimmed_query, kw["USE"])
         THEN use_executed(update_metadata(st), split_whitespace(query))
         ELSE update_metadata(st)
    ELSE st

executed(ex, query) ==
    [st |-> after_execute(ex.st, ex.result, to_uppercase(trim(query)), query),
     result |-> ex.result]

execute_query(st, query) == executed(QueryExecutor_execute(st, query), query)

\* use_database after `self.execute_query(..)?`
database_used(ex, db_name) ==
    IF ex.result = "Err" THEN ex
    ELSE [st |-> assign_current_database(ex.st, db_name), result |-> "Ok"]

use_database(st, db_name) ==
    database_used(execute_query(st, cw["USE "] \o db_name), db_name)

\* str::strip_prefix(..).unwrap()
strip_prefix(s, p) == SubSeq(s, Len(p) + 1, Len(s))

\* str::trim_end_matches with a string pattern
RECURSIVE trim_end_matches_str(_, _)
trim_end_matches_str(s, p) ==
    IF ends_with(s, p) THEN trim_end_matches_str(SubSeq(s, 1, Len(s) - Len(p)), p) ELSE s

handle_special_command(st, command) ==
    IF starts_with(command, cw["\\u "])
    THEN use_database(st, trim(strip_prefix(command, cw["\\u "])))
    ELSE [st |-> st, result |-> "Ok"]

\* the body of the loop of run for a line read from the editor
run_line(st, l) ==
    IF l = <<>> THEN [st |-> st, result |-> "Ok"]
    ELSE IF starts_with(l, <<"\\">>) THEN handle_special_command(st, l)
    ELSE IF ends_with(l, <<";">>) \/ ends_with(l, cw["\\g"])
    THEN execute_query(st, trim(trim_end_matches_str(trim_end_matches(l, ";"), cw["\\g"])))
    ELSE [st |-> st, result |-> "Ok"]

MaxCommands == 3

\* the lines typed at the prompt
CliLines ==
    { kw["USE"] \o <<" ">> \o nm["test_db"] \o <<";">>,
      to_lowercase(kw["USE"]) \o <<" ">> \o nm["sales"] \o <<";">>,
      kw["USE"] \o <<" ">> \o cw["nosuch"] \o <<";">>,
      kw["USE"] \o <<" ">> \o backtick(nm["sales"]) \o cw["\\g"],
      kw["USE"] \o <<" ">> \o nm["sales"],
      cw["\\u "] \o nm["test_db"],
      cw["\\u "] \o cw["nosuch"],
      cw["\\u "] \o backtick(nm["sales"]),
      cw["CREATE"] \o <<" ">> \o cw["TABLE"] \o <<" ">> \o nm["items"] \o <<";">>,
      cw["DROP"] \o <<" ">> \o cw["TABLE"] \o <<" ">> \o cw["nosuch"] \o <<";">>,
      kw["SELECT"] \o <<" ">> \o <<"1">> \o <<";">> }

\* time between two lines: a moment, and longer than the cache stays fresh
CliDelays == { 1, REFRESH_SECS * TicksPerSecond + 2 }

\* the session as the handlers see it, t ticks after the start
Session(t) ==
    [md |-> Metadata, cli_db |-> cli_current_database, engine_db |-> current_database,
     server |-> server, queries |-> queries, calls |-> calls, issued |-> 0,
     now |-> t, answer |-> "none"]

\* Cli::new(.., database): the connection is open on database, the cache has
\* been loaded once, and both pointers hold database
InitCli ==
    /\ pc = "cli_prompt"
    /\ \E database \in { <<>>, <<nm["test_db"]>> } :
          cli_current_database = database /\ current_database = database
    /\ databases = enumerate_schema(new_metadata(0), 0, CatalogFixture, NoFailure).md.databases
    /\ tables = enumerate_schema(new_metadata(0), 0, CatalogFixture, NoFailure).md.tables
    /\ columns = enumerate_schema(new_metadata(0), 0, CatalogFixture, NoFailure).md.columns
    /\ last_update = 0 /\ has_loaded = TRUE
    /\ now = 0 /\ server = CatalogFixture
    /\ queries = enumerate_schema(new_metadata(0), 0, CatalogFixture, NoFailure).issued
    /\ calls = 1 /\ op = "new" /\ ret = "Ok"
    /\ issued = enumerate_schema(new_metadata(0), 0, CatalogFixture, NoFailure).issued
    /\ line = <<>> /\ context = "unset"
    /\ word = <<>> /\ base_score = 0 /\ relevance = <<>>
    /\ metadata_lock = "free" /\ suggestions = <<>> /\ todo = <<>> /\ lookups = <<>>
    /\ table_names = <<>>
    /\ pos = 0 /\ start = 0 /\ commands = 0 /\ refresher = "idle"

\* the handlers return to the loop with the session as res.st
BackAtPrompt(res) ==
    /\ databases' = res.st.md.databases
    /\ tables' = res.st.md.tables
    /\ columns' = res.st.md.columns
    /\ last_update' = res.st.md.last_update
    /\ has_loaded' = res.st.md.has_loaded
    /\ cli_current_database' = res.st.cli_db
    /\ current_database' = res.st.engine_db
    /\ server' = res.st.server
    /\ queries' = res.st.queries
    /\ calls' = res.st.calls
    /\ issued' = res.st.issued
    /\ op' = "run"
    /\ ret' = res.result

\* one turn of the loop of Cli::run
ReadLine(l, d) ==
    /\ pc = "cli_prompt" /\ commands < MaxCommands
    /\ line' = l
    /\ now' = now + d
    /\ commands' = commands + 1
    /\ BackAtPrompt(run_line(Session(now + d), trim(l)))
    /\ UNCHANGED <<pc, pos, start, refresher, context, rel_vars, metadata_lock,
                   suggestions, todo, lookups, table_names>>

NextCli == \E l \in CliLines : \E d \in CliDelays : ReadLine(l, d)

SpecCli == InitCli /\ [][NextCli]_vars

(***************************************************************************)
(* SpecExt: extract_table_names_from_query applied to queries of up to     *)
(* MaxExtWords words                                                       *)
(***************************************************************************)
MaxExtWords == 3

ExtWords ==
    { kw["FROM"], <<"f","r","o","m">>, kw["JOIN"], kw["SELECT"], kw["WHERE"], kw["*"],
      nm["users"], backtick(nm["users"]), backtick(nm["users"]) \o <<",">>,
      nm["orders"] \o <<";">>, <<",">> \o nm["orders"], <<BACKTICK, ";", BACKTICK>>,
      <<"(">> \o kw["SELECT"], <<"(">> }

InitExt ==
    /\ pc = "ext_input"
    /\ \E n \in 0..MaxExtWords : \E ws \in [1..n -> ExtWords] :
          line = JoinWords(ws, <<" ">>)
    /\ context = "unset"
    /\ word = <<>> /\ base_score = 0 /\ relevance = <<>>
    /\ NoMetadata /\ NoConnection /\ NoEngine /\ NoCli

ExtractTableNames ==
    /\ pc = "ext_input"
    /\ table_names' = extract_table_names_from_query(line)
    /\ pc' = "ext_done"
    /\ UNCHANGED <<cli_vars, current_database, metadata_lock, suggestions, todo, lookups,
                   ctx_vars, rel_vars, md_vars, conn_vars>>

SpecExt == InitExt /\ [][ExtractTableNames]_vars

(***************************************************************************)
(* Properties                                                              *)
(***************************************************************************)
FirstTokenIsUse(ln) ==
    LET ws == split_whitespace(ln)
    IN ws # <<>> /\ to_uppercase(ws[1]) = kw["USE"]

UpperTrimmed(ln) == trim(to_uppercase(ln))

ParserRejects(ln) == ~parse_sql(trim(ln)).ok

ParsedStatement(ln) == parse_sql(trim(ln)).first

EndsInOtherClauseKeyword(ln) ==
    \E k \in {kw["FROM"], kw["JOIN"], kw["ON"], kw["ORDER BY"], kw["GROUP BY"], kw["HAVING"]} :
        ends_with(UpperTrimmed(ln), k)

\* C1: every line whose first whitespace-delimited token is USE, in any
\* letter case, is classified UseCommand, whatever clause keywords follow
\* and whether or not the line parses.
C1_UseCommandWins ==
    (pc = "ctx_done" /\ FirstTokenIsUse(line)) => context = "UseCommand"

C1_Witness ==
    /\ pc = "ctx_done"
    /\ split_whitespace(line) # <<>>
    /\ split_whitespace(line)[1] = <<"u","s","e">>
    /\ contains(to_uppercase(line), kw["WHERE"])
    /\ ParserRejects(line)
    /\ context = "UseCommand"

\* C2 as stated: every line whose first token is not USE and that contains
\* ` WHERE ` or ends in WHERE is classified WhereClause.
C2_Original ==
    (/\ pc = "ctx_done"
     /\ ~FirstTokenIsUse(line)
     /\ \/ contains(to_uppercase(line), <<" ">> \o kw["WHERE "])
        \/ ends_with(UpperTrimmed(line), kw["WHERE"]))
    => context = "WhereClause"

\* C2 as amended: for a line whose first token is not USE,
\*  - if the parser rejects it, it is classified WhereClause when it ends in
\*    WHERE, and when it contains `WHERE ` and does not end in FROM, JOIN, ON,
\*    ORDER BY, GROUP BY or HAVING, also when it contains FROM;
\*  - if it parses as a statement, it is classified WhereClause exactly when
\*    the statement is a SELECT with both a FROM and a WHERE clause.
C2_Amended ==
    (pc = "ctx_done" /\ ~FirstTokenIsUse(line)) =>
        /\ (/\ ParserRejects(line)
            /\ \/ ends_with(UpperTrimmed(line), kw["WHERE"])
               \/ /\ contains(UpperTrimmed(line), kw["WHERE "])
                  /\ ~EndsInOtherClauseKeyword(line))
           => context = "WhereClause"
        /\ (~ParserRejects(line) /\ ParsedStatement(line) # NoStatement) =>
               (context = "WhereClause" <=>
                   /\ ParsedStatement(line).kind = "Query"
                   /\ ParsedStatement(line).from
                   /\ ParsedStatement(line).selection)

C2_Witness ==
    /\ pc = "ctx_done"
    /\ ~FirstTokenIsUse(line)
    /\ ParserRejects(line)
    /\ contains(UpperTrimmed(line), kw["FROM "])
    /\ contains(UpperTrimmed(line), kw["WHERE "])
    /\ ~ends_with(UpperTrimmed(line), kw["WHERE"])
    /\ context = "WhereClause"

\* C3 as stated: every line whose first token is not USE and that ends in
\* FROM or JOIN, optionally followed by whitespace, is classified FromClause.
C3_Original ==
    (/\ pc = "ctx_done"
     /\ ~FirstTokenIsUse(line)
     /\ \/ ends_with(UpperTrimmed(line), kw["FROM"])
        \/ ends_with(UpperTrimmed(line), kw["JOIN"]))
    => context = "FromClause"

\* C3 as amended: every line whose first token is not USE, that the parser
\* rejects and that ends in FROM or JOIN, optionally followed by whitespace,
\* is classified FromClause.
C3_Amended ==
    (/\ pc = "ctx_done"
     /\ ~FirstTokenIsUse(line)
     /\ ParserRejects(line)
     /\ \/ ends_with(UpperTrimmed(line), kw["FROM"])
        \/ ends_with(UpperTrimmed(line), kw["JOIN"]))
    => context = "FromClause"

C3_Witness ==
    /\ pc = "ctx_done"
    /\ ~FirstTokenIsUse(line)
    /\ ParserRejects(line)
    /\ ends_with(to_uppercase(line), kw["JOIN "])
    /\ contains(to_uppercase(line), kw["WHERE "])
    /\ context = "FromClause"


\* how a candidate matches the typed word: 3 exact (ignoring case),
\* 2 proper prefix, 1 substring elsewhere, 0 no match
MatchRank(item, w) ==
    IF to_lowercase(item) = to_lowercase(w) THEN 3
    ELSE IF starts_with(to_lowercase(item), to_lowercase(w)) THEN 2
    ELSE IF contains(to_lowercase(item), to_lowercase(w)) THEN 1
    ELSE 0

RankedStrictly ==
    \A a \in DOMAIN relevance : \A b \in DOMAIN relevance :
        MatchRank(a, word) > MatchRank(b, word) => relevance[a] > relevance[b]

\* C5 (as stated): for a non-empty word and every base score in 0..100,
\* exact match > prefix match > substring match > non-match, strictly.
C5_Original ==
    (pc = "rel" /\ word # <<>> /\ base_score <= 100) => RankedStrictly

\* C5: for a non-empty typed word and every base score in 0..94 shared by
\* the candidates, calculate_relevance scores an exact match strictly above
\* a prefix match, a prefix match strictly above a substring match and a
\* substring match strictly above a non-match; and for every base score in
\* 0..100 an exact match scores 100 and a prefix match 95.
C5_Amended ==
    (pc = "rel" /\ word # <<>>) =>
        /\ base_score <= 94 => RankedStrictly
        /\ \A a \in DOMAIN relevance :
              /\ MatchRank(a, word) = 3 => relevance[a] = 100
              /\ MatchRank(a, word) = 2 => relevance[a] = 95

C5_Witness ==
    /\ pc = "rel" /\ word = <<"o","r">> /\ base_score = 90
    /\ DOMAIN relevance = RelItems
    /\ relevance[nm["OR"]] = 100
    /\ relevance[nm["orders"]] = 95
    /\ relevance[nm["information_schema"]] = 85
    /\ relevance[nm["users"]] = 80

\* ticks elapsed since the last successful refresh
SinceRefresh == now - last_update

\* a call of update_from_connection made while the cache is fresh, i.e.
\* loaded and fewer than 300 seconds old at the instant of the call
FreshCall ==
    /\ op' = "update_from_connection" /\ calls' = calls + 1
    /\ has_loaded
    /\ now' - last_update < REFRESH_SECS * TicksPerSecond

\* C8: once update_from_connection has succeeded, a further call made before
\* the cache is stale issues no query, leaves databases, tables, columns and
\* last_update unchanged and returns Ok; so two calls inside the window
\* enumerate the schema once.
C8_FreshCallIsNoOp ==
    [][FreshCall =>
          /\ queries' = queries /\ issued' = 0
          /\ UNCHANGED md_vars
          /\ ret' = "Ok"]_vars

C8_Witness ==
    /\ op = "update_from_connection" /\ calls = 2
    /\ has_loaded /\ last_update = 0 /\ now = 1
    /\ server = CatalogAfterDDL
    /\ issued = 0 /\ queries = 6 /\ ret = "Ok"
    /\ DOMAIN columns =
          { to_lowercase(format_key(nm["test_db"], nm["users"])),
            to_lowercase(format_key(nm["test_db"], nm["orders"])),
            to_lowercase(format_key(nm["sales"], nm["orders"])) }

\* C9 (as stated): needs_refresh is true while no refresh has succeeded;
\* after a successful refresh it is false while fewer than 300 seconds have
\* elapsed and true once 300 seconds have elapsed.
C9_Original ==
    op = "needs_refresh" =>
        (ret = "true" <=>
            (~has_loaded \/ SinceRefresh >= REFRESH_SECS * TicksPerSecond))

\* the limit the statement of C4 gives for a context
StatedCap(ctx) ==
    CASE ctx = "UseCommand" -> 20
      [] ctx \in {"FromClause", "WhereClause", "HavingClause", "JoinOnClause",
                  "OrderByClause", "GroupByClause"} -> 15
      [] ctx = "SelectClause" -> 12
      [] OTHER -> 10

\* C4 (as stated): get_suggestions returns at most 20 suggestions in
\* UseCommand, 15 in FromClause and the WHERE/HAVING/ON/ORDER BY/GROUP BY
\* contexts, 12 in SelectClause and 10 in every other context.
C4_Original ==
    pc = "sug_done" => Len(suggestions) <= StatedCap(context)

\* C4: for every line and partial word, get_suggestions returns at most 20
\* suggestions when the context is UseCommand, at most 15 when it is
\* FromClause, InsertIntoClause, UpdateClause, WhereClause, HavingClause,
\* JoinOnClause, OrderByClause or GroupByClause, at most 12 when it is
\* SelectClause and at most 10 when it is General, however many candidates
\* qualify.
C4_Amended ==
    pc = "sug_done" =>
        /\ context = "UseCommand" => Len(suggestions) <= 20
        /\ context \in {"FromClause", "InsertIntoClause", "UpdateClause",
                        "WhereClause", "HavingClause", "JoinOnClause",
                        "OrderByClause", "GroupByClause"} => Len(suggestions) <= 15
        /\ context = "SelectClause" => Len(suggestions) <= 12
        /\ context = "General" => Len(suggestions) <= 10

C4_Witness ==
    /\ pc = "sug_done" /\ context = "UseCommand" /\ word = <<>>
    /\ Len(databases) = NumDatabases
    /\ lookups = <<[kind |-> "databases", locked_out |-> FALSE,
                    items |-> get_database_suggestions(Metadata, <<>>)]>>
    /\ Len(lookups[1].items) = NumDatabases
    /\ Len(suggestions) = 20

\* C6 (as stated): when the metadata lock is held by another thread while
\* get_suggestions runs in FromClause context, the call returns an empty
\* list, for an empty as well as a non-empty partial word.
C6_Original ==
    (/\ pc = "sug_done" /\ context = "FromClause"
     /\ lookups = <<[kind |-> "tables", locked_out |-> TRUE, items |-> <<>>]>>)
        => suggestions = <<>>

\* a step of get_suggestions taken at a try_lock while the refreshing
\* thread holds the metadata lock
StepWhileLocked ==
    /\ pc = "sug_lookup" /\ todo # <<>> /\ Head(todo).kind \in MetadataLookups
    /\ metadata_lock = "refresher"
    /\ <<pc, suggestions, todo, lookups>>' # <<pc, suggestions, todo, lookups>>

\* the engine is at one of its metadata.try_lock() calls
AtTryLock ==
    pc = "sug_lookup" /\ todo # <<>> /\ Head(todo).kind \in MetadataLookups

\* C7: get_suggestions never waits for the metadata lock: at each of its
\* try_lock calls the engine can take its next step whoever holds the lock;
\* a metadata lookup reached while the refreshing thread holds the lock is
\* skipped (it returns nothing and the call goes on to its next source); and
\* the engine is never at a try_lock while holding the lock itself.
C7_NeverWaits ==
    /\ [](AtTryLock => ENABLED (TryLockOk \/ TryLockErr))
    /\ [](pc = "sug_lookup" => metadata_lock # "engine")
    /\ [][StepWhileLocked =>
             /\ todo' = Tail(todo)
             /\ lookups' = Append(lookups, [kind |-> Head(todo).kind,
                                            locked_out |-> TRUE, items |-> <<>>])
             /\ UNCHANGED <<pc, suggestions, metadata_lock>>]_vars

C7_Witness ==
    /\ pc = "sug_done" /\ line = kw["WHERE "] /\ context = "WhereClause"
    /\ word = <<>> /\ calls = 0 /\ columns # <<>>
    /\ lookups = <<[kind |-> "limited_columns", locked_out |-> TRUE, items |-> <<>>]>>
    /\ metadata_lock = "refresher"
    /\ Len(suggestions) = Len(conditions)

\* the words that follow a FROM or JOIN token of the line
NamedTables ==
    { split_whitespace(line)[i + 1] :
        i \in { j \in 1..(Len(split_whitespace(line)) - 1) :
                  to_uppercase(split_whitespace(line)[j]) \in {kw["FROM"], kw["JOIN"]} } }

Occurrences(items, column, key) ==
    Cardinality({ i \in DOMAIN items :
                    items[i].text = backtick(column) /\ items[i].source = key })

EachColumnOnce(items, key) ==
    key \in DOMAIN columns =>
        \A c \in DOMAIN columns[key] : Occurrences(items, columns[key][c], key) = 1

\* C10 (as stated): in the WHERE, HAVING, ON, ORDER BY and GROUP BY contexts
\* with an empty partial word, the suggestions of
\* get_column_suggestions_for_query hold every column of every table that is
\* named after FROM or JOIN and cached under the current database exactly
\* once, however often the table is named.
C10_Original ==
    (/\ context \in {"WhereClause", "HavingClause", "JoinOnClause",
                     "OrderByClause", "GroupByClause"}
     /\ word = <<>> /\ calls = 0 /\ current_database # <<>>
     /\ lookups # <<>> /\ lookups[1].kind = "columns_for_query"
     /\ ~lookups[1].locked_out)
        => \A t \in NamedTables :
              EachColumnOnce(lookups[1].items,
                             to_lowercase(format_key(current_database[1], t)))

\* one suggestion per database of dbs, in the order of dbs, each of relevance
\* 90
DatabasesAt90(dbs) ==
    [i \in 1..Len(dbs) |->
        [text |-> backtick(dbs[i]), category |-> "Database", relevance |-> 90,
         source |-> <<>>]]

\* get_database_suggestions reads a cache that lists a database, for an empty
\* word
ReadsDatabasesForEmptyWord ==
    /\ pc = "sug_locked" /\ Head(todo).kind = "databases"
    /\ word = <<>> /\ databases # <<>>
    /\ pc' = "sug_lookup"

\* C11: in UseCommand context with an empty partial word, the metadata lock
\* free and at least one database cached, get_suggestions returns exactly
\* the cached databases (the first 20 of them), in the order in which the
\* cache lists them, each with relevance 90, and nothing else.
C11_ExactlyTheDatabases ==
    /\ [][ReadsDatabasesForEmptyWord =>
             lookups' = <<[kind |-> "databases", locked_out |-> FALSE,
                           items |-> DatabasesAt90(databases)]>>]_vars
    /\ []((/\ pc = "sug_done" /\ context = "UseCommand" /\ word = <<>>
           /\ lookups # <<>> /\ ~lookups[1].locked_out /\ lookups[1].items # <<>>)
             => suggestions = SubSeq(lookups[1].items, 1,
                                     IF Len(lookups[1].items) < 20
                                     THEN Len(lookups[1].items) ELSE 20))

C11_Witness ==
    /\ pc = "sug_done" /\ context = "UseCommand" /\ word = <<>>
    /\ lookups = <<[kind |-> "databases", locked_out |-> FALSE,
                    items |-> DatabasesAt90(LargeMetadata.databases)]>>
    /\ suggestions = DatabasesAt90(SubSeq(LargeMetadata.databases, 1, 20))
    /\ Len(LargeMetadata.databases) > 20

\* the positions of `*` and `COUNT(*)` in the returned list
StarAt(i) ==
    suggestions[i] = [text |-> kw["*"], category |-> "Command", relevance |-> 95,
                      source |-> <<>>]

CountStarAt(j) ==
    suggestions[j] = [text |-> <<"C","O","U","N","T","(","*",")">>,
                      category |-> "Command", relevance |-> 90, source |-> <<>>]

\* `*` is ranked above `COUNT(*)`, and both are ahead of every keyword
StarThenCountStarThenKeywords ==
    \E i \in DOMAIN suggestions : \E j \in DOMAIN suggestions :
        /\ i < j /\ StarAt(i) /\ CountStarAt(j)
        /\ \A k \in DOMAIN suggestions :
              suggestions[k].category = "SqlKeyword" => j < k

\* get_suggestions has returned for a SelectClause line without FROM and an
\* empty word
SelectWithoutFromReturned ==
    /\ pc = "sug_done" /\ context = "SelectClause" /\ word = <<>>
    /\ ~contains(to_uppercase(line), kw["FROM"])

\* C12 (as stated): whenever the context is SelectClause, the line contains
\* no FROM and the partial word is empty, the list returned by
\* get_suggestions contains `*` with relevance 95 ranked above `COUNT(*)`
\* with relevance 90, both ahead of every keyword suggestion.
C12_Original ==
    SelectWithoutFromReturned => StarThenCountStarThenKeywords

\* C12: when the line is the word SELECT alone (in any letter case, with any
\* surrounding whitespace) and the partial word is empty, the list returned
\* by get_suggestions starts with `*` (relevance 95) followed by `COUNT(*)`
\* (relevance 90), both ahead of every keyword suggestion; for every other
\* SelectClause line without FROM and an empty word the list holds neither.
C12_Amended ==
    SelectWithoutFromReturned =>
        IF trim(to_uppercase(line)) = kw["SELECT"]
        THEN /\ StarThenCountStarThenKeywords
             /\ StarAt(1) /\ CountStarAt(2)
        ELSE \A i \in DOMAIN suggestions : ~StarAt(i) /\ ~CountStarAt(i)

C12_Witness ==
    /\ SelectWithoutFromReturned
    /\ line = kw["SELECT"] \o <<" ">>
    /\ Len(suggestions) = 2 + Len(sql_keywords)
    /\ StarAt(1) /\ CountStarAt(2) /\ suggestions[3].category = "SqlKeyword"

\* get_suggestions returns from a context that suggests tables
ReturnsTables ==
    /\ pc = "sug_lookup" /\ pc' = "sug_done"
    /\ context \in {"FromClause", "InsertIntoClause", "UpdateClause"}

\* in the list s every table of the current database comes before every
\* table of another database
CurrentDatabaseFirst(s) ==
    \A i \in DOMAIN s : \A j \in DOMAIN s :
        (/\ s[i].category = "Table" /\ s[j].category = "Table"
         /\ current_database # <<s[i].source>> /\ current_database = <<s[j].source>>)
            => j < i

\* C13 (as stated): in FromClause, InsertIntoClause and UpdateClause
\* contexts, for an empty and for a non-empty partial word, every suggested
\* table that belongs to the current database appears in the returned list
\* before every suggested table of any other database.
C13_Original ==
    [][ReturnsTables => CurrentDatabaseFirst(suggestions')]_vars

\* the elements of s that have relevance r, in the order of s
OfRelevance(s, r) == SelectSeq(s, LAMBDA x : x.relevance = r)

IsPrefix(a, b) == Len(a) <= Len(b) /\ a = SubSeq(b, 1, Len(a))

NonIncreasing(s) ==
    \A i \in DOMAIN s : \A j \in DOMAIN s : i < j => s[i].relevance >= s[j].relevance

\* the step on which get_suggestions returns its list
Returns == pc = "sug_lookup" /\ pc' = "sug_done"

\* C14: the list returned by get_suggestions is in non-increasing order of
\* relevance, and suggestions of equal relevance keep the relative order in
\* which they were generated.
C14_SortedAndStable ==
    [][Returns =>
          /\ NonIncreasing(suggestions')
          /\ \A r \in 0..100 :
                IsPrefix(OfRelevance(suggestions', r), OfRelevance(suggestions, r))]_vars

C14_Witness ==
    /\ pc = "sug_done" /\ context = "General" /\ word = <<>>
    /\ Len(suggestions) = 10
    /\ suggestions[1].relevance = 95 /\ suggestions[6].relevance = 70
    /\ suggestions[7] = Suggestion_sql_keyword(kw["SELECT"], 65)
    /\ suggestions[8] = Suggestion_sql_keyword(kw["FROM"], 65)
    /\ suggestions[10] = Suggestion_sql_keyword(kw["INSERT"], 65)

\* the rules of the three tiers as the statement of C15 lists them: the text
\* looked for and the context it stands for
SuffixRules ==
    << <<kw["WHERE"], "WhereClause">>, <<kw["FROM"], "FromClause">>,
       <<kw["JOIN"], "FromClause">>, <<kw["ON"], "JoinOnClause">>,
       <<kw["ORDER BY"], "OrderByClause">>, <<kw["GROUP BY"], "GroupByClause">>,
       <<kw["HAVING"], "HavingClause">> >>

SubstringRules ==
    << <<kw["WHERE "], "WhereClause">>, <<kw["FROM "], "FromClause">>,
       <<kw["JOIN "], "FromClause">>, <<kw[" ON "], "JoinOnClause">>,
       <<kw["ORDER BY "], "OrderByClause">>, <<kw["GROUP BY "], "GroupByClause">>,
       <<kw["HAVING "], "HavingClause">> >>

StartRules ==
    << <<kw["SELECT"], "SelectClause">>, <<kw["INSERT INTO"], "InsertIntoClause">>,
       <<kw["UPDATE"], "UpdateClause">> >>

\* the contexts of the rules of a tier that match the upper-cased line u
SuffixMatches(u) ==
    { SuffixRules[i][2] : i \in { j \in DOMAIN SuffixRules : ends_with(u, SuffixRules[j][1]) } }

SubstringMatches(u) ==
    { SubstringRules[i][2] :
        i \in { j \in DOMAIN SubstringRules : contains(u, SubstringRules[j][1]) } }

StartMatches(u) ==
    { StartRules[i][2] : i \in { j \in DOMAIN StartRules : starts_with(u, StartRules[j][1]) } }

\* the context of the first rule of the substring tier that matches u
FirstSubstringMatch(u) ==
    SubstringRules[CHOOSE i \in DOMAIN SubstringRules :
                      /\ contains(u, SubstringRules[i][1])
                      /\ \A j \in 1..(i - 1) : ~contains(u, SubstringRules[j][1])][2]

\* the context the tiers give the upper-cased, trimmed line u when taken in
\* order
TieredContext(u, ln) ==
    IF SuffixMatches(u) # {} THEN SuffixMatches(u)
    ELSE IF SubstringMatches(u) # {} THEN {FirstSubstringMatch(u)}
    ELSE IF StartMatches(u) # {} THEN StartMatches(u)
    ELSE {analyze_context_fallback(trim(ln))}

\* C15: the classification tiers are applied in a fixed priority order and
\* an earlier rule always wins: for a line (not starting with USE) that does
\* not fully parse, a matching suffix rule decides the context even if a
\* substring rule for a different context also matches; a matching substring
\* rule (the first in the order of the list) decides even if a
\* statement-start rule also matches; a statement-start rule decides if no
\* other does; and the word-scan fallback gives the context only when none
\* of these matches.
C15_EarlierTierWins ==
    (pc = "ctx_done" /\ ~FirstTokenIsUse(line) /\ ParserRejects(line)) =>
        /\ TieredContext(UpperTrimmed(line), line) = {context}
        /\ Cardinality(SuffixMatches(UpperTrimmed(line))) <= 1

C15_Witness ==
    /\ pc = "ctx_done" /\ ~FirstTokenIsUse(line) /\ ParserRejects(line)
    /\ SuffixMatches(UpperTrimmed(line)) = {"JoinOnClause"}
    /\ SubstringMatches(UpperTrimmed(line)) = {"WhereClause", "FromClause"}
    /\ StartMatches(UpperTrimmed(line)) = {"SelectClause"}
    /\ context = "JoinOnClause"

\* the whitespace-delimited tokens of the line, upper-cased
UpperTokens(ln) == split_whitespace(to_uppercase(ln))

\* the last tokens of ws are the tokens ks
LastTokensAre(ws, ks) ==
    Len(ks) <= Len(ws) /\ SubSeq(ws, Len(ws) - Len(ks) + 1, Len(ws)) = ks

\* the context C16 gives a line by its last tokens ("none" when they are
\* not ORDER BY, GROUP BY, HAVING or ON)
ContextOfLastTokens(ws) ==
    CASE LastTokensAre(ws, <<kw["ORDER"], kw["BY"]>>) -> "OrderByClause"
      [] LastTokensAre(ws, <<kw["GROUP"], kw["BY"]>>) -> "GroupByClause"
      [] LastTokensAre(ws, <<kw["HAVING"]>>) -> "HavingClause"
      [] LastTokensAre(ws, <<kw["ON"]>>) -> "JoinOnClause"
      [] OTHER -> "none"

\* C16 (as stated): for every line whose first token is not USE and whose
\* last tokens are ORDER BY, GROUP BY, HAVING or ON, analyze_context returns
\* OrderByClause, GroupByClause, HavingClause or JoinOnClause respectively,
\* whether the keyword stands alone or follows a SELECT ... FROM ... prefix.
C16_Original ==
    (/\ pc = "ctx_done" /\ ~FirstTokenIsUse(line)
     /\ ContextOfLastTokens(UpperTokens(line)) # "none")
        => context = ContextOfLastTokens(UpperTokens(line))

\* the context of the clause keyword text the upper-cased line u ends with
\* ("none" when it ends with none of them)
ContextOfEnding(u) ==
    CASE ends_with(u, kw["ORDER BY"]) -> "OrderByClause"
      [] ends_with(u, kw["GROUP BY"]) -> "GroupByClause"
      [] ends_with(u, kw["HAVING"]) -> "HavingClause"
      [] ends_with(u, kw["ON"]) -> "JoinOnClause"
      [] OTHER -> "none"

\* the keyword alone, or after a SELECT * FROM T prefix
AloneOrAfterSelectFrom(u) ==
    \E k \in {kw["ORDER BY"], kw["GROUP BY"], kw["HAVING"], kw["ON"]} :
        u \in {k, kw["SELECT"] \o <<" ">> \o kw["*"] \o <<" ">> \o kw["FROM "] \o <<"T", " ">> \o k}

\* C16: for every line whose first token is not USE, that the parser rejects
\* and whose last tokens are ORDER BY, GROUP BY (one space between the two
\* words), HAVING or ON, analyze_context returns OrderByClause,
\* GroupByClause, HavingClause or JoinOnClause respectively; the parser
\* rejects the keyword alone and the keyword after a `SELECT * FROM t `
\* prefix, so these lines are classified this way.
C16_Amended ==
    (pc = "ctx_done" /\ ~FirstTokenIsUse(line)) =>
        /\ (/\ ParserRejects(line)
            /\ ContextOfLastTokens(UpperTokens(line)) # "none"
            /\ ContextOfEnding(UpperTrimmed(line)) = ContextOfLastTokens(UpperTokens(line)))
              => context = ContextOfLastTokens(UpperTokens(line))
        /\ AloneOrAfterSelectFrom(UpperTrimmed(line))
              => /\ ParserRejects(line)
                 /\ context = ContextOfEnding(UpperTrimmed(line))

C16_Witness ==
    /\ pc = "ctx_done" /\ ParserRejects(line)
    /\ line = kw["SELECT"] \o <<" ">> \o kw["*"] \o <<" ">> \o kw["FROM "] \o <<"t", " ">>
                \o kw["GROUP BY"] \o <<" ">>
    /\ context = "GroupByClause"

\* one of the clause keywords of C17 occurs among the tokens ws
HasClauseToken(ws) ==
    \/ \E i \in DOMAIN ws : ws[i] \in {kw["WHERE"], kw["FROM"], kw["JOIN"], kw["ON"], kw["HAVING"]}
    \/ \E i \in 1..(Len(ws) - 1) :
          ws[i] \in {kw["ORDER"], kw["GROUP"]} /\ ws[i + 1] = kw["BY"]

\* the context C17 gives a line by its first token
ContextOfFirstToken(ws) ==
    IF ws = <<>> THEN "General"
    ELSE CASE ws[1] = kw["SELECT"] -> "SelectClause"
           [] ws[1] = kw["INSERT"] -> "InsertIntoClause"
           [] ws[1] = kw["UPDATE"] -> "UpdateClause"
           [] OTHER -> "General"

\* C17 (as stated): for every line whose first token is not USE and in which
\* none of WHERE, FROM, JOIN, ON, ORDER BY, GROUP BY, HAVING occurs as a
\* token, analyze_context returns SelectClause when the first token is
\* SELECT, InsertIntoClause when it is INSERT, UpdateClause when it is UPDATE
\* and General in every other case.
C17_Original ==
    (/\ pc = "ctx_done" /\ ~FirstTokenIsUse(line)
     /\ ~HasClauseToken(UpperTokens(line)))
        => context = ContextOfFirstToken(UpperTokens(line))

\* the word w without the backticks, commas and semicolons around it
RECURSIVE Stripped(_)
Stripped(w) ==
    IF w # <<>> /\ Head(w) \in {BACKTICK, ",", ";"} THEN Stripped(Tail(w))
    ELSE IF w # <<>> /\ w[Len(w)] \in {BACKTICK, ",", ";"}
    THEN Stripped(SubSeq(w, 1, Len(w) - 1))
    ELSE w

\* the stripped words that follow a FROM or JOIN token of ws from position i
\* on, keywords omitted
RECURSIVE FollowingFromOrJoin(_, _)
FollowingFromOrJoin(ws, i) ==
    IF i >= Len(ws) THEN <<>>
    ELSE (IF /\ to_uppercase(ws[i]) \in {kw["FROM"], kw["JOIN"]}
             /\ ~is_sql_keyword(Stripped(ws[i + 1]))
          THEN <<Stripped(ws[i + 1])>> ELSE <<>>)
         \o FollowingFromOrJoin(ws, i + 1)

\* C18 (as stated): extract_table_names_from_query returns, in line order,
\* exactly the tokens that immediately follow a FROM or JOIN token, each with
\* all of its surrounding backticks, commas and semicolons removed, and omits
\* any such token that is a SQL keyword; the token that opens a subquery
\* after FROM is never returned as a table name.
C18_Original ==
    pc = "ext_done" =>
        /\ \A i \in DOMAIN table_names : Head(table_names[i] \o <<" ">>) # "("
        /\ table_names = FollowingFromOrJoin(split_whitespace(line), 1)

\* a call of update_from_connection that finds the cache stale
DueRefresh(d, fail) ==
    UpdateFromConnection(d, fail) /\ needs_refresh(Metadata, now + d)

\* C19 (as stated): when the connection starts failing at any point of a
\* refresh that is due, update_from_connection returns an error and leaves
\* databases, tables, columns, the loaded flag and the staleness clock as
\* they were.
C19_Original ==
    [][\A d \in Delays : \A fail \in ConnectionLost :
          DueRefresh(d, fail) => ret' = "Err" /\ UNCHANGED md_vars]_vars


\* the databases of the server whose tables an enumeration failing as `fail`
\* obtains
ListedDatabases(srv, fail) ==
    { srv.databases[i] : i \in DOMAIN srv.databases } \ fail.show_tables

\* the <<database, table>> pairs whose columns that enumeration obtains
ListedTables(srv, fail) ==
    { k \in DOMAIN srv.columns :
        /\ k[1] \in ListedDatabases(srv, fail)
        /\ ~is_system_database(k[1])
        /\ k \notin fail.show_columns }

\* a due call whose SHOW DATABASES is answered
EnumerationSucceeds(d, fail) ==
    DueRefresh(d, fail) /\ ~fail.show_databases

\* what C20 says of the state after such a call
StoredDespiteFailures(srv, fail, t, dbs, tabs, cols, loaded, updated, result) ==
    /\ result = "Ok" /\ loaded /\ updated = t
    /\ dbs = srv.databases
    /\ DOMAIN tabs = { to_lowercase(db) : db \in { x \in ListedDatabases(srv, fail) :
                                                   ~is_system_database(x) } }
    /\ \A db \in ListedDatabases(srv, fail) :
          ~is_system_database(db) => tabs[to_lowercase(db)] = srv.tables[db]
    /\ DOMAIN cols = { to_lowercase(format_key(k[1], k[2])) : k \in ListedTables(srv, fail) }
    /\ \A k \in ListedTables(srv, fail) :
          cols[to_lowercase(format_key(k[1], k[2]))] = srv.columns[k]
    /\ \A db \in { nm["information_schema"], nm["mysql"], nm["performance_schema"], nm["sys"] } :
          /\ \E i \in DOMAIN dbs : dbs[i] = db
          /\ db \notin DOMAIN tabs
          /\ \A key \in DOMAIN cols : ~starts_with(key, db \o <<".">>)

\* C20: when SHOW DATABASES is answered, a due update_from_connection returns
\* Ok, sets has_loaded and sets last_update to the instant of the call,
\* whatever SHOW TABLES and SHOW COLUMNS queries fail; databases is the
\* server's list, tables holds exactly the non-system databases whose SHOW
\* TABLES was answered, columns holds exactly their tables whose SHOW COLUMNS
\* was answered, each with the server's content, and the four system
\* databases are in databases with no entry in tables or columns.
C20_PartialRefresh ==
    [][\A d \in Delays : \A fail \in Failures :
          EnumerationSucceeds(d, fail) =>
              StoredDespiteFailures(server, fail, now', databases', tables', columns',
                                    has_loaded', last_update', ret')]_vars

\* a refresh in which SHOW TABLES failed for test_db only has returned Ok:
\* sales and its table are stored, test_db and its tables are missing, and
\* the system databases are listed without tables
C20_Witness ==
    /\ op = "update_from_connection" /\ ret = "Ok" /\ issued = 4
    /\ has_loaded /\ last_update = now
    /\ Len(databases) = 6
    /\ DOMAIN tables = {nm["sales"]}
    /\ DOMAIN columns = {format_key(nm["sales"], nm["orders"])}

\* the byte offset just after the last delimiter char that lies before the
\* cursor of l at p, 0 when there is none
RECURSIVE AfterLastDelimiter(_, _, _)
AfterLastDelimiter(l, p, n) ==
    IF n = 0 THEN 0
    ELSE IF byte_len(l, n) <= p /\ l[n] \in {" ", "\t", "\n", IDEOGRAPHIC_SPACE, "(", ",", ".", ";"}
    THEN byte_len(l, n)
    ELSE AfterLastDelimiter(l, p, n - 1)

\* C22 (as stated): get_word_start returns the index just after the last
\* whitespace, '(', ',', '.' or ';' before pos, or 0; so 0 <= start <= pos,
\* the partial word line[start..pos] holds no delimiter, and computing it
\* never fails.
C22_Original ==
    /\ pc \in {"word_start", "word_done"} =>
          /\ start = AfterLastDelimiter(line, pos, Len(line))
          /\ 0 <= start /\ start <= pos
    /\ pc = "word_done" =>
          /\ ret = "Ok"
          /\ \A i \in DOMAIN word : ~is_word_delimiter(word[i])

\* test_select_column_suggestions: the cache of create_test_engine, current
\* database test_db, and the call
\* get_column_suggestions_for_query("select * from orders where", "") has
\* returned with the lock free
OrdersColumnsAsked ==
    /\ pc = "columns_done"
    /\ columns = FixtureMetadata.columns
    /\ current_database = <<nm["test_db"]>>
    /\ line = JoinWords(<<<<"s","e","l","e","c","t">>, kw["*"], <<"f","r","o","m">>,
                          nm["orders"], <<"w","h","e","r","e">>>>, <<" ">>)
    /\ word = <<>>
    /\ ~lookups[1].locked_out

Snapshot(md) == <<md.databases, md.tables, md.columns>>

\* the snapshots of the caches the engine starts with, and the one a
\* refresh from the server leaves
CompleteSnapshots ==
    { Snapshot(FixtureMetadata), Snapshot(LargeMetadata), Snapshot(new_metadata(0)),
      Snapshot(enumerate_schema(new_metadata(0), 0, CatalogFixture, NoFailure).md) }

\* a metadata lookup of the engine has just read the cache
ReadsMetadata ==
    /\ lookups' # lookups /\ lookups' # <<>>
    /\ ~lookups'[Len(lookups')].locked_out

\* a refresh that rebuilt the cache returns
RefreshCompletes == refresher = "loading" /\ refresher' = "idle"

\* every entry of tabs and cols is one that the server srv enumerates
EnumeratedOnly(srv, tabs, cols) ==
    /\ \A k \in DOMAIN tabs :
          \E i \in DOMAIN srv.databases :
              /\ ~is_system_database(srv.databases[i])
              /\ k = to_lowercase(srv.databases[i])
              /\ tabs[k] = srv.tables[srv.databases[i]]
    /\ \A k \in DOMAIN cols :
          \E t \in DOMAIN srv.columns :
              k = to_lowercase(t[1] \o <<".">> \o t[2]) /\ cols[k] = srv.columns[t]

\* C21: a lookup of get_suggestions that obtains the metadata lock reads a
\* complete snapshot, the one before or the one after a refresh, never the
\* cache while a refresh has replaced databases and is rebuilding tables and
\* columns; and when a refresh returns, tables and columns hold only entries
\* it enumerated from the server.
C21_ReadersSeeCompleteSnapshots ==
    /\ [][ReadsMetadata => Snapshot(Metadata) \in CompleteSnapshots]_vars
    /\ [][RefreshCompletes => EnumeratedOnly(server, tables', columns')]_vars
    /\ [](refresher \in {"cleared", "loading"} => metadata_lock = "refresher")

\* a USE completion has read the databases of the cache after a refresh
\* replaced them by the server's list
C21_Witness ==
    /\ pc = "sug_done" /\ context = "UseCommand" /\ word = <<>>
    /\ op = "update_from_connection" /\ ret = "Ok" /\ issued > 0 /\ refresher = "idle"
    /\ lookups = <<[kind |-> "databases", locked_out |-> FALSE,
                    items |-> DatabasesAt90(CatalogFixture.databases)]>>
    /\ Snapshot(Metadata) \in CompleteSnapshots


\* the statement that the line l, as typed at the prompt, sends to the server
StatementOf(l) ==
    IF starts_with(l, cw["\\u "]) THEN cw["USE "] \o trim(strip_prefix(l, cw["\\u "]))
    ELSE trim(trim_end_matches_str(trim_end_matches(l, ";"), cw["\\g"]))

\* the line l reaches the server as a USE statement
TypedUse(l) ==
    /\ starts_with(l, cw["\\u "]) \/ ends_with(l, <<";">>) \/ ends_with(l, cw["\\g"])
    /\ starts_with(to_uppercase(StatementOf(l)), cw["USE "])

\* the step handles a USE statement that the server rejects
UseRejected ==
    /\ commands' = commands + 1
    /\ TypedUse(line')
    /\ ~server_accepts(server, split_whitespace(StatementOf(line')))

\* C24 (as stated): when the server rejects a USE statement, typed as
\* `USE db;` or as `\u db`, the current database of the prompt and the one
\* of the completion engine keep their values and no metadata refresh is
\* attempted.
C24_Original ==
    [][UseRejected =>
          /\ cli_current_database' = cli_current_database
          /\ current_database' = current_database
          /\ calls' = calls]_vars

\* the step handles a statement beginning with CREATE, DROP, ALTER or USE
\* that the server executes
SchemaStatementExecuted ==
    /\ commands' = commands + 1
    /\ starts_with(line', cw["\\u "]) \/ ends_with(line', <<";">>) \/ ends_with(line', cw["\\g"])
    /\ \E k \in {cw["CREATE"], cw["DROP"], cw["ALTER"], kw["USE"]} :
          starts_with(to_uppercase(StatementOf(line')), k)
    /\ server_accepts(server, split_whitespace(StatementOf(line')))

\* C25 (as stated): after a statement beginning with CREATE, DROP, ALTER or
\* USE has executed successfully, the cache holds the databases, tables and
\* columns of the server as they are after that statement, however recently
\* the cache was refreshed before.
C25_Original ==
    [][SchemaStatementExecuted =>
          Snapshot(Metadata') = Snapshot(enumerate_schema(new_metadata(0), 0, server',
                                                          NoFailure).md)]_vars

\* C27: at every prompt the current database that Cli keeps for its prompt
\* is the one the completion engine holds, whether the session started with
\* or without a database and whatever USE statements and \u commands were
\* typed.
C27_PointersAgree ==
    pc = "cli_prompt" => cli_current_database = current_database

\* after `\u` with a quoted name both pointers hold the name as typed
C27_Witness ==
    /\ pc = "cli_prompt" /\ commands = 2
    /\ line = cw["\\u "] \o backtick(nm["sales"])
    /\ cli_current_database = <<backtick(nm["sales"])>>
    /\ current_database = <<backtick(nm["sales"])>>

\* the line reaches the word scan of analyze_context_fallback: its first
\* token is not USE, the parser rejects it, and no suffix, substring or
\* statement-start rule matches
ReachesWordScan(ln) ==
    /\ ~FirstTokenIsUse(ln) /\ ParserRejects(ln)
    /\ SuffixMatches(UpperTrimmed(ln)) = {}
    /\ SubstringMatches(UpperTrimmed(ln)) = {}
    /\ StartMatches(UpperTrimmed(ln)) = {}

\* the context of the first clause keyword met in the tokens ws from token i
\* on, an ORDER or GROUP counting only when the next token is BY
RECURSIVE FirstClauseKeyword(_, _)
FirstClauseKeyword(ws, i) ==
    IF i > Len(ws) THEN "None"
    ELSE CASE ws[i] = kw["WHERE"] -> "WhereClause"
           [] ws[i] \in {kw["FROM"], kw["JOIN"]} -> "FromClause"
           [] ws[i] = kw["ORDER"] /\ i < Len(ws) /\ ws[i + 1] = kw["BY"] -> "OrderByClause"
           [] ws[i] = kw["GROUP"] /\ i < Len(ws) /\ ws[i + 1] = kw["BY"] -> "GroupByClause"
           [] ws[i] = kw["HAVING"] -> "HavingClause"
           [] OTHER -> FirstClauseKeyword(ws, i + 1)

\* C26 (as stated): in the word scan, the context is OrderByClause (resp.
\* GroupByClause) exactly when the first clause keyword met, scanning left to
\* right, is an ORDER (resp. GROUP) token immediately followed by a BY token,
\* wherever in the line the pair stands.
C26_Original ==
    (pc = "ctx_done" /\ ReachesWordScan(line)) =>
        /\ context = "OrderByClause"
              <=> FirstClauseKeyword(UpperTokens(line), 1) = "OrderByClause"
        /\ context = "GroupByClause"
              <=> FirstClauseKeyword(UpperTokens(line), 1) = "GroupByClause"

\* the token tok is a partially typed name: letters and underscores, and not
\* a keyword
IsPartialName(tok) ==
    /\ tok # <<>>
    /\ \A i \in DOMAIN tok : tok[i] = "_" \/ \E j \in 1..26 : UpperAlphabet[j] = tok[i]
    /\ \A k \in DOMAIN kw : tok # kw[k]

\* the tokens ws end in a clause keyword followed by a partially typed name
KeywordThenPartialName(ws) ==
    /\ Len(ws) >= 2 /\ IsPartialName(ws[Len(ws)])
    /\ ContextOfLastTokens(SubSeq(ws, 1, Len(ws) - 1)) # "none"

\* C29 (as stated): a line whose last clause keyword is ORDER BY, GROUP BY,
\* HAVING or ON and is followed by a partially typed token is classified
\* OrderByClause, GroupByClause, HavingClause or JoinOnClause respectively,
\* also when a FROM or WHERE clause stands earlier in the line.
C29_Original ==
    (/\ pc = "ctx_done" /\ ~FirstTokenIsUse(line)
     /\ KeywordThenPartialName(UpperTokens(line)))
        => context = ContextOfLastTokens(SubSeq(UpperTokens(line), 1,
                                                Len(UpperTokens(line)) - 1))


\* the word matches the text: equal to it, a prefix of it or contained in
\* it, letter case ignored
MatchesWord(text, w) == contains(to_lowercase(text), to_lowercase(w))

\* C28 (as stated): for a non-empty word, every keyword, function and
\* condition-keyword suggestion returned by get_suggestions matches the
\* word case-insensitively.
C28_Original ==
    (pc = "sug_done" /\ word # <<>>) =>
        \A i \in 1..Len(suggestions) :
            suggestions[i].category \in {"SqlKeyword", "Function"}
                => MatchesWord(suggestions[i].text, word)


\* the keys under which update_from_connection files a database and a table
TablesKey(db) == to_lowercase(db)
ColumnsKey(db, table) == to_lowercase(format_key(db, table))

\* every database whose tables were obtained, and every table whose columns
\* were obtained, has an entry of its own holding the server's content
OwnEntries(srv, fail, tabs, cols) ==
    /\ \A db \in ListedDatabases(srv, fail) :
          ~is_system_database(db) =>
              /\ TablesKey(db) \in DOMAIN tabs
              /\ tabs[TablesKey(db)] = srv.tables[db]
              /\ \A other \in ListedDatabases(srv, fail) \ {db} :
                    ~is_system_database(other) => TablesKey(other) # TablesKey(db)
    /\ \A k \in ListedTables(srv, fail) :
          /\ ColumnsKey(k[1], k[2]) \in DOMAIN cols
          /\ cols[ColumnsKey(k[1], k[2])] = srv.columns[k]
          /\ \A other \in ListedTables(srv, fail) \ {k} :
                ColumnsKey(other[1], other[2]) # ColumnsKey(k[1], k[2])

\* C30 (as stated): after a successful refresh every non-system database
\* whose table enumeration succeeded has its own tables entry holding
\* exactly its tables, and every enumerated table its own columns entry
\* holding exactly its columns, also when two database names or two table
\* names differ only in letter case.
C30_Original ==
    [][\A d \in Delays : \A fail \in CaseFailures :
          (DueRefresh(d, fail) /\ ~fail.show_databases)
              => OwnEntries(server, fail, tables', columns')]_vars
====
